---- MODULE Spec2Model ----
(***************************************************************************)
(* Paste lifecycle of pastebin-lite (server/index.js): the storage         *)
(* adapter (savePaste / getPaste / deletePaste over Redis with the         *)
(* in-memory fallback), the clock provider, and the four request handlers  *)
(* POST /api/pastes, GET /api/pastes/:id, GET /p/:id and                    *)
(* GET /api/pastes/:id/metadata.                                           *)
(*                                                                         *)
(* A request is one process.  A handler runs from one suspension point to  *)
(* the next in one step: the suspension points are the awaited Redis       *)
(* commands and the setTimeout between two attempts of a storage call.     *)
(* A storage call served by the in-memory Map does not leave the event     *)
(* loop's current task, so the handler keeps the processor (running)       *)
(* until it reaches a Redis command, a sleep, or its response.             *)
(***************************************************************************)
EXTENDS Integers, Sequences, FiniteSets, TLC

(***************************************************************************)
(* Bounds of the model.                                                    *)
(***************************************************************************)
MaxReqs == 4        \* requests of one run (request p arrives p-th)
MaxRace == 2        \* overlapping requests of the race specifications
MaxIds == 2         \* identifiers nanoid can draw
MaxViewsIn == 2     \* largest max_views a request asks for
MaxSec == 2         \* seconds of wall-clock time a run covers
MaxSeq == 3         \* requests of one run where the inputs vary widely
MaxFaults == 3      \* Redis commands that throw in one run

(***************************************************************************)
(* Program constants.                                                      *)
(***************************************************************************)
Retries == 3                     \* retries = 3 of savePaste/getPaste/deletePaste
maxAttempts == 10                \* identifier allocation attempts
MsPerSec == 1000                 \* ttl_seconds * 1000
BackoffMs == 100                 \* 100 * (i + 1)
MaxContentLen == 10485760        \* 10 * 1024 * 1024
MaxTtl == 31536000               \* 365 * 24 * 60 * 60
MaxViewsLimit == 1000000
MaxIdLen == 100
NanoidLen == 10
BodyLimit == 10485760              \* express.json({ limit: '10mb' }), in bytes
NineMiB == 9437184                 \* "x".repeat(9 * 1024 * 1024)

(***************************************************************************)
(* JavaScript values.  A string is its leading characters s followed by    *)
(* pad filler characters "x" (so that a 10 MiB string is a value).         *)
(***************************************************************************)
Undef == [t |-> "undefined"]
Null == [t |-> "null"]
Num(n) == [t |-> "number", k |-> "int", v |-> n]
Frac(n) == [t |-> "number", k |-> "frac", v |-> n]     \* n + 1/2
NaN == [t |-> "number", k |-> "nan", v |-> 0]
Infinity == [t |-> "number", k |-> "inf", v |-> 0]
\* A timestamp in milliseconds, kept as whole seconds and milliseconds (an
\* expiry a year ahead does not fit the checker's integers as milliseconds).
Stamp(sec, ms) == [t |-> "number", k |-> "stamp", sec |-> sec, ms |-> ms]
Str(s) == [t |-> "string", s |-> s, pad |-> 0]
Big(s, n) == [t |-> "string", s |-> s, pad |-> n]

IsNullish(x) == x.t \in {"undefined", "null"}
NumberIsInteger(x) == x.t = "number" /\ x.k = "int"
Length(x) == Len(x.s) + x.pad

\* ToBoolean: undefined, null, 0, NaN and "" are falsy.
Truthy(x) ==
  CASE x.t \in {"undefined", "null"} -> FALSE
    [] x.t = "number" -> CASE x.k = "int" -> x.v # 0
                           [] x.k = "stamp" -> x.sec # 0 \/ x.ms # 0
                           [] OTHER -> x.k # "nan"
    [] x.t = "string" -> Length(x) > 0
    [] OTHER -> TRUE

Whitespace == {" ", "\t", "\n"}

RECURSIVE DropLeadingWs(_)
DropLeadingWs(s) ==
  IF s # <<>> /\ Head(s) \in Whitespace THEN DropLeadingWs(Tail(s)) ELSE s

RECURSIVE DropTrailingWs(_)
DropTrailingWs(s) ==
  IF s # <<>> /\ s[Len(s)] \in Whitespace
  THEN DropTrailingWs(SubSeq(s, 1, Len(s) - 1))
  ELSE s

\* String.prototype.trim
Trim(x) ==
  IF x.pad > 0 THEN Big(DropLeadingWs(x.s), x.pad)
  ELSE Str(DropTrailingWs(DropLeadingWs(x.s)))

EscapeChar(c) ==
  CASE c = "&" -> <<"&", "a", "m", "p", ";">>
    [] c = "<" -> <<"&", "l", "t", ";">>
    [] c = ">" -> <<"&", "g", "t", ";">>
    [] c = "\"" -> <<"&", "q", "u", "o", "t", ";">>
    [] c = "'" -> <<"&", "#", "0", "3", "9", ";">>
    [] OTHER -> <<c>>

RECURSIVE EscapeSeq(_)
EscapeSeq(s) ==
  IF s = <<>> THEN <<>> ELSE EscapeChar(Head(s)) \o EscapeSeq(Tail(s))

\* Mutant of escapeHtml: the content goes out as stored.
escapeHtml_Raw(text) == text

\* escapeHtml of GET /api/pastes/:id/metadata and GET /p/:id
escapeHtml(text) == Big(EscapeSeq(text.s), text.pad)

\* The timestamp of the instant n (milliseconds), n + seconds * 1000, and n >= d.
Date(n) == Stamp(n \div MsPerSec, n % MsPerSec)
PlusSeconds(d, seconds) == Stamp(d.sec + seconds, d.ms)
AtOrAfter(n, d) ==
  \/ n \div MsPerSec > d.sec
  \/ n \div MsPerSec = d.sec /\ n % MsPerSec >= d.ms

\* new Date(ms).toISOString(): the instant as text
ToISOString(d) == [t |-> "string", iso |-> <<d.sec, d.ms>>]

Digits == <<"0", "1", "2", "3", "4", "5", "6", "7", "8", "9">>
IsDigit(c) == \E d \in 1..10 : Digits[d] = c
DigitVal(c) == (CHOOSE d \in 1..10 : Digits[d] = c) - 1

RECURSIVE DigitsValue(_, _)
DigitsValue(s, acc) ==
  IF s = <<>> \/ ~IsDigit(Head(s)) THEN acc
  ELSE DigitsValue(Tail(s), acc * 10 + DigitVal(Head(s)))

\* parseInt(str, 10): leading whitespace, an optional sign, then the longest
\* run of digits; NaN when there is no digit.
parseInt(x) ==
  LET s0 == DropLeadingWs(x.s)
      neg == s0 # <<>> /\ Head(s0) = "-"
      s1 == IF s0 # <<>> /\ Head(s0) \in {"-", "+"} THEN Tail(s0) ELSE s0
  IN IF s1 = <<>> \/ ~IsDigit(Head(s1)) THEN NaN
     ELSE Num((IF neg THEN -1 ELSE 1) * DigitsValue(s1, 0))

RECURSIVE ToDigits(_)
ToDigits(n) ==
  IF n < 10 THEN <<Digits[n + 1]>> ELSE ToDigits(n \div 10) \o <<Digits[(n % 10) + 1]>>

\* getCurrentTime(req): the header value when TEST_MODE is on and the header
\* is non-empty and parses to a number >= 0, Date.now() otherwise.
getCurrentTime(mode, hdr, dateNow) ==
  IF mode /\ Truthy(hdr)
  THEN LET testTime == parseInt(hdr)
       IN IF testTime.k = "nan" \/ testTime.v < 0 THEN dateNow ELSE testTime.v
  ELSE dateNow

(***************************************************************************)
(* Identifiers.  nanoid(10) draws one of MaxIds identifiers of 10          *)
(* characters; a request may also name an identifier of 0, 100 or 101      *)
(* characters.                                                             *)
(***************************************************************************)
Id(n, len) == [n |-> n, len |-> len]
GenIds == {Id(n, NanoidLen) : n \in 1..MaxIds}
EmptyId == Id(0, 0)
LongId == Id(0, MaxIdLen)
TooLongId == Id(0, MaxIdLen + 1)
AllIds == GenIds \cup {EmptyId, LongId, TooLongId}

\* Mutant of validId: an identifier of MaxIdLen characters is refused too.
validId_Ceiling(id) == id.len # 0 /\ ~(id.len >= MaxIdLen)

\* The identifier check shared by the three read handlers:
\* !id || id.length === 0 || id.length > 100
validId(id) == id.len # 0 /\ ~(id.len > MaxIdLen)

(***************************************************************************)
(* Stored values.  Redis holds text: JSON.stringify(data) or, written by   *)
(* something else, text that JSON.parse rejects.  The Map holds objects.   *)
(***************************************************************************)
RNil == [t |-> "nil"]
Garbage == [t |-> "string", raw |-> "{"]
JSONstringify(data) == [t |-> "string", json |-> data]
JSONparse(text) ==
  IF "json" \in DOMAIN text THEN [ok |-> TRUE, v |-> text.json] ELSE [ok |-> FALSE, v |-> Null]

\* JSON.parse(JSON.stringify(data)): the deep clone of the fallback store
DeepClone(data) == JSONparse(JSONstringify(data)).v

\* Mutant of CloneShares: the Map and the caller hold one object.
CloneShares_SameObject == TRUE

\* Whether the object the Map is given, or gives, at the adapter boundary is
\* the caller's own: JSON.parse builds a new object on every call.
CloneShares == FALSE

\* The instants the wall clock is read at: each second and the millisecond before.
Times == {s * MsPerSec + d : s \in 1..MaxSec, d \in {-1, 0}}

VARIABLES
  redisUp,       \* redisClient && redisConnected
  testMode,      \* config.testMode
  clock,         \* Date.now()
  redisStore,    \* the remote store: identifier -> text or RNil
  memoryStore,   \* the Map: identifier -> object or Undef
  req,           \* the requests: handler, position, locals (loaded: what
                 \* getPaste returned; io: the storage attempts made;
                 \* shared: the object in paste is the Map's own entry)
  resp,          \* the response each request has sent
  running        \* the request whose handler holds the event loop, or 0

vars == <<redisUp, testMode, clock, redisStore, memoryStore, req, resp, running>>

Reqs == 1..MaxReqs

NoResp == [status |-> 0]
NoBody == [content |-> Undef, ttl_seconds |-> Undef, max_views |-> Undef]
IdleReq ==
  [kind |-> "none", pc |-> "idle", i |-> 0, id |-> EmptyId, hdr |-> Undef,
   body |-> NoBody, loaded |-> Null, paste |-> Null, now |-> 0, attempts |-> 0,
   deleted |-> FALSE, io |-> <<>>, shared |-> FALSE]

\* One storage attempt of a request, for the record of what it issued.
Io(op, ok, sleep) == [op |-> op, ok |-> ok, sleep |-> sleep]

(***************************************************************************)
(* The storage adapter: what one attempt of savePaste, getPaste and        *)
(* deletePaste does to the two stores.                                     *)
(***************************************************************************)
\* redisClient.set(`paste:${id}`, JSON.stringify(data)), or
\* memoryStore.set(id, JSON.parse(JSON.stringify(data)))
savePasteRedis(store, id, data) == [store EXCEPT ![id] = JSONstringify(data)]
savePasteMemory(store, id, data) == [store EXCEPT ![id] = DeepClone(data)]

\* Mutant of deletePasteRedis: the key is left as it is.
deletePasteRedis_Keeps(store, id) == store

\* Mutant of deletePasteMemory: the Map is cleared.
deletePasteMemory_Clears(store, id) == [i \in DOMAIN store |-> Undef]

\* redisClient.del / memoryStore.delete
deletePasteRedis(store, id) == [store EXCEPT ![id] = RNil]
deletePasteMemory(store, id) == [store EXCEPT ![id] = Undef]

\* getPaste, one attempt: "absent", "found" with the record, or "corrupt"
\* (the text is there and JSON.parse throws).
getPasteRedis(store, id) ==
  LET data == store[id]
  IN IF data = RNil THEN [r |-> "absent", v |-> Null]
     ELSE IF JSONparse(data).ok THEN [r |-> "found", v |-> JSONparse(data).v]
     ELSE [r |-> "corrupt", v |-> Null]

getPasteMemory(store, id) ==
  LET data == store[id]
  IN IF data # Undef THEN [r |-> "found", v |-> DeepClone(data)]
     ELSE [r |-> "absent", v |-> Null]

getPasteAttempt(id) ==
  IF redisUp THEN getPasteRedis(redisStore, id) ELSE getPasteMemory(memoryStore, id)

(***************************************************************************)
(* A handler's move: where the request goes next and what it answers.      *)
(***************************************************************************)
Goto(r, site) == [r |-> [r EXCEPT !.pc = site, !.i = 0], resp |-> NoResp]
Respond(r, status, body) ==
  [r |-> [r EXCEPT !.pc = "done"], resp |-> [status |-> status, body |-> body]]

NotFoundJson == [error |-> "Paste not found"]
InternalError == [error |-> "Internal server error"]

\* expires_at ? new Date(expires_at).toISOString() : null
IsoOrNull(x) == IF Truthy(x) THEN ToISOString(x) ELSE Null

(***************************************************************************)
(* POST /api/pastes                                                        *)
(***************************************************************************)
\* Mutant of validateCreate: the ceiling of ttl_seconds is one second higher.
validateCreate_NoTtlCeiling(body) ==
  LET content == body.content
      ttl_seconds == body.ttl_seconds
      max_views == body.max_views
  IN CASE IsNullish(content) -> "content is required"
       [] content.t # "string" -> "content must be a string"
       [] Length(Trim(content)) = 0 -> "content cannot be empty"
       [] Length(content) > MaxContentLen -> "content exceeds maximum size of 10MB"
       [] ~IsNullish(ttl_seconds) /\ ttl_seconds.t # "number" -> "ttl_seconds must be a number"
       [] ~IsNullish(ttl_seconds) /\ ~NumberIsInteger(ttl_seconds) -> "ttl_seconds must be an integer"
       [] ~IsNullish(ttl_seconds) /\ ttl_seconds.v < 1 -> "ttl_seconds must be >= 1"
       [] ~IsNullish(ttl_seconds) /\ ttl_seconds.v > MaxTtl + 1 -> "ttl_seconds cannot exceed 1 year"
       [] ~IsNullish(max_views) /\ max_views.t # "number" -> "max_views must be a number"
       [] ~IsNullish(max_views) /\ ~NumberIsInteger(max_views) -> "max_views must be an integer"
       [] ~IsNullish(max_views) /\ max_views.v < 1 -> "max_views must be >= 1"
       [] ~IsNullish(max_views) /\ max_views.v > MaxViewsLimit -> "max_views cannot exceed 1,000,000"
       [] OTHER -> ""

\* Mutant of validateCreate: max_views = 0 passes.
validateCreate_ZeroViews(body) ==
  LET content == body.content
      ttl_seconds == body.ttl_seconds
      max_views == body.max_views
  IN CASE IsNullish(content) -> "content is required"
       [] content.t # "string" -> "content must be a string"
       [] Length(Trim(content)) = 0 -> "content cannot be empty"
       [] Length(content) > MaxContentLen -> "content exceeds maximum size of 10MB"
       [] ~IsNullish(ttl_seconds) /\ ttl_seconds.t # "number" -> "ttl_seconds must be a number"
       [] ~IsNullish(ttl_seconds) /\ ~NumberIsInteger(ttl_seconds) -> "ttl_seconds must be an integer"
       [] ~IsNullish(ttl_seconds) /\ ttl_seconds.v < 1 -> "ttl_seconds must be >= 1"
       [] ~IsNullish(ttl_seconds) /\ ttl_seconds.v > MaxTtl -> "ttl_seconds cannot exceed 1 year"
       [] ~IsNullish(max_views) /\ max_views.t # "number" -> "max_views must be a number"
       [] ~IsNullish(max_views) /\ ~NumberIsInteger(max_views) -> "max_views must be an integer"
       [] ~IsNullish(max_views) /\ max_views.v < 0 -> "max_views must be >= 1"
       [] ~IsNullish(max_views) /\ max_views.v > MaxViewsLimit -> "max_views cannot exceed 1,000,000"
       [] OTHER -> ""

\* The validation of the request body: the error of the first check that
\* fails, "" when all pass.
validateCreate(body) ==
  LET content == body.content
      ttl_seconds == body.ttl_seconds
      max_views == body.max_views
  IN CASE IsNullish(content) -> "content is required"
       [] content.t # "string" -> "content must be a string"
       [] Length(Trim(content)) = 0 -> "content cannot be empty"
       [] Length(content) > MaxContentLen -> "content exceeds maximum size of 10MB"
       [] ~IsNullish(ttl_seconds) /\ ttl_seconds.t # "number" -> "ttl_seconds must be a number"
       [] ~IsNullish(ttl_seconds) /\ ~NumberIsInteger(ttl_seconds) -> "ttl_seconds must be an integer"
       [] ~IsNullish(ttl_seconds) /\ ttl_seconds.v < 1 -> "ttl_seconds must be >= 1"
       [] ~IsNullish(ttl_seconds) /\ ttl_seconds.v > MaxTtl -> "ttl_seconds cannot exceed 1 year"
       [] ~IsNullish(max_views) /\ max_views.t # "number" -> "max_views must be a number"
       [] ~IsNullish(max_views) /\ ~NumberIsInteger(max_views) -> "max_views must be an integer"
       [] ~IsNullish(max_views) /\ max_views.v < 1 -> "max_views must be >= 1"
       [] ~IsNullish(max_views) /\ max_views.v > MaxViewsLimit -> "max_views cannot exceed 1,000,000"
       [] OTHER -> ""

\* The bytes of the JSON text of a body whose characters are ASCII: the braces,
\* and for each field present its quoted name, the colon and its value (a
\* string in quotes, " and \ escaped; a number by its digits, one at least).
Escaped(c) == IF c \in {"\"", "\\"} THEN 2 ELSE 1
RECURSIVE SeqBytes(_)
SeqBytes(s) == IF s = <<>> THEN 0 ELSE Escaped(Head(s)) + SeqBytes(Tail(s))
ValueBytes(x) ==
  CASE x.t = "string" -> 2 + SeqBytes(x.s) + x.pad
    [] x.t = "null" -> 4
    [] OTHER -> 1
FieldBytes(name, x) == IF x.t = "undefined" THEN 0 ELSE Len(name) + 4 + ValueBytes(x)
BodyBytes(body) ==
  1 + FieldBytes(<<"c", "o", "n", "t", "e", "n", "t">>, body.content)
    + FieldBytes(<<"t", "t", "l", "_", "s", "e", "c", "o", "n", "d", "s">>, body.ttl_seconds)
    + FieldBytes(<<"m", "a", "x", "_", "v", "i", "e", "w", "s">>, body.max_views)

\* express.json({ limit: '10mb' }): a body over the limit is not parsed, req.body
\* stays the empty object, and the error middleware that follows passes the
\* request on with next().
expressJson(body) == IF BodyBytes(body) > BodyLimit THEN NoBody ELSE body

\* Mutant of newPaste: remaining_views is set only for a limit above one.
newPaste_OneViewUncounted(body, createdAt) ==
  [content |-> body.content,
   created_at |-> Date(createdAt),
   expires_at |-> IF Truthy(body.ttl_seconds)
                  THEN PlusSeconds(Date(createdAt), body.ttl_seconds.v) ELSE Null,
   max_views |-> IF Truthy(body.max_views) THEN body.max_views ELSE Null,
   remaining_views |-> IF Truthy(body.max_views) /\ body.max_views.v > 1
                       THEN body.max_views ELSE Null,
   view_count |-> Num(0)]

\* pasteData
newPaste(body, createdAt) ==
  [content |-> body.content,
   created_at |-> Date(createdAt),
   expires_at |-> IF Truthy(body.ttl_seconds)
                  THEN PlusSeconds(Date(createdAt), body.ttl_seconds.v) ELSE Null,
   max_views |-> IF Truthy(body.max_views) THEN body.max_views ELSE Null,
   remaining_views |-> IF Truthy(body.max_views) THEN body.max_views ELSE Null,
   view_count |-> Num(0)]

\* Mutant of createStart: the identifier is allocated before the body is looked at.
createStart_Unchecked(r, body, nid) ==
  Goto([r EXCEPT !.kind = "create", !.body = body, !.id = nid, !.attempts = 0], "get")

\* The handler up to its first getPaste.
createStart(r, body, nid) ==
  IF validateCreate(expressJson(body)) # ""
  THEN Respond([r EXCEPT !.kind = "create", !.body = body], 400,
               [error |-> validateCreate(expressJson(body))])
  ELSE Goto([r EXCEPT !.kind = "create", !.body = body, !.id = nid, !.attempts = 0], "get")

\* Mutant of createAfterGet: a candidate is used whether or not it is taken.
createAfterGet_UsesTaken(r, existing, dateNow, nid) ==
  Goto([r EXCEPT !.paste = newPaste(r.body, dateNow)], "save_new")

\* The do-while of the identifier allocation, after getPaste has returned.
createAfterGet(r, existing, dateNow, nid) ==
  IF existing.r = "found"
  THEN IF r.attempts + 1 < maxAttempts
       THEN Goto([r EXCEPT !.attempts = r.attempts + 1, !.id = nid], "get")
       ELSE Respond([r EXCEPT !.attempts = r.attempts + 1], 500,
                    [error |-> "Failed to generate unique ID"])
  ELSE Goto([r EXCEPT !.paste = newPaste(r.body, dateNow)], "save_new")

createAfterSave(r) == Respond(r, 201, [id |-> r.id, url |-> [p |-> r.id]])

(***************************************************************************)
(* GET /api/pastes/:id                                                     *)
(***************************************************************************)
\* Mutant of fetchExpired: expired only strictly after expires_at.
fetchExpired_Strict(paste, now) ==
  ~IsNullish(paste.expires_at) /\ AtOrAfter(now - 1, paste.expires_at)

\* paste.expires_at !== null && paste.expires_at !== undefined && now >= paste.expires_at
fetchExpired(paste, now) ==
  ~IsNullish(paste.expires_at) /\ AtOrAfter(now, paste.expires_at)

\* Mutant of decrementViewsAtomic: the record is deleted only below zero, so the
\* last view leaves a record with remaining_views = 0 behind.
decrementViewsAtomic_KeepsZero(paste) ==
  IF paste.remaining_views = Null
  THEN [paste |-> paste, next |-> "none"]
  ELSE IF paste.remaining_views.v <= 0
  THEN [paste |-> paste, next |-> "del_zero"]
  ELSE LET dec == [paste EXCEPT !.remaining_views = Num(paste.remaining_views.v - 1)]
       IN IF dec.remaining_views.v < 0
          THEN [paste |-> dec, next |-> "del_last"]
          ELSE [paste |-> dec, next |-> "save_dec"]

\* Mutant of decrementViewsAtomic: without the test for null, null <= 0 holds
\* and a record without a view limit counts as exhausted.
decrementViewsAtomic_NullIsZero(paste) ==
  IF paste.remaining_views = Null
  THEN [paste |-> paste, next |-> "del_zero"]
  ELSE IF paste.remaining_views.v <= 0
  THEN [paste |-> paste, next |-> "del_zero"]
  ELSE LET dec == [paste EXCEPT !.remaining_views = Num(paste.remaining_views.v - 1)]
       IN IF dec.remaining_views.v <= 0
          THEN [paste |-> dec, next |-> "del_last"]
          ELSE [paste |-> dec, next |-> "save_dec"]

\* Mutant of decrementViewsAtomic: two views are taken at a time.
decrementViewsAtomic_ByTwo(paste) ==
  IF paste.remaining_views = Null
  THEN [paste |-> paste, next |-> "none"]
  ELSE IF paste.remaining_views.v <= 0
  THEN [paste |-> paste, next |-> "del_zero"]
  ELSE LET dec == [paste EXCEPT !.remaining_views = Num(paste.remaining_views.v - 2)]
       IN IF dec.remaining_views.v <= 0
          THEN [paste |-> dec, next |-> "del_last"]
          ELSE [paste |-> dec, next |-> "save_dec"]

\* decrementViewsAtomic up to its storage call: the copy in hand and the call
\* it makes next ("none": it returns at once).
decrementViewsAtomic(paste) ==
  IF paste.remaining_views = Null
  THEN [paste |-> paste, next |-> "none"]
  ELSE IF paste.remaining_views.v <= 0
  THEN [paste |-> paste, next |-> "del_zero"]
  ELSE LET dec == [paste EXCEPT !.remaining_views = Num(paste.remaining_views.v - 1)]
       IN IF dec.remaining_views.v <= 0
          THEN [paste |-> dec, next |-> "del_last"]
          ELSE [paste |-> dec, next |-> "save_dec"]

\* paste.view_count = (paste.view_count || 0) + 1
bumpViewCount(paste) ==
  [paste EXCEPT !.view_count =
     Num((IF Truthy(paste.view_count) THEN paste.view_count.v ELSE 0) + 1)]

fetchResponse(paste) ==
  [content |-> paste.content,
   remaining_views |-> paste.remaining_views,
   expires_at |-> IsoOrNull(paste.expires_at)]

\* Mutant of fetchAfterDecrement: the bumped copy is saved after a delete too.
fetchAfterDecrement_AlwaysSaves(r, deleted) ==
  Goto([r EXCEPT !.paste = bumpViewCount(r.paste), !.deleted = deleted], "save_vc")

\* After decrementViewsAtomic has returned success: the view_count bump, the
\* save unless the record was deleted, the response.
fetchAfterDecrement(r, deleted) ==
  LET r1 == [r EXCEPT !.paste = bumpViewCount(r.paste), !.deleted = deleted]
  IN IF ~deleted THEN Goto(r1, "save_vc") ELSE Respond(r1, 200, fetchResponse(r1.paste))

fetchAfterGet(r, got, now) ==
  IF got.r # "found" THEN Respond(r, 404, NotFoundJson)
  ELSE LET r1 == [r EXCEPT !.loaded = got.v, !.paste = got.v, !.now = now]
           d == decrementViewsAtomic(got.v)
       IN IF fetchExpired(got.v, now) THEN Goto(r1, "del_expired")
          ELSE IF d.next = "none" THEN fetchAfterDecrement(r1, FALSE)
          ELSE Goto([r1 EXCEPT !.paste = d.paste], d.next)

fetchAfterDelete(r) ==
  IF r.pc = "del_last" THEN fetchAfterDecrement(r, TRUE)
  ELSE Respond(r, 404, NotFoundJson)

fetchAfterSave(r) ==
  IF r.pc = "save_dec" THEN fetchAfterDecrement(r, FALSE)
  ELSE Respond(r, 200, fetchResponse(r.paste))

(***************************************************************************)
(* GET /p/:id                                                              *)
(***************************************************************************)
\* Mutant of htmlExpired: expired only strictly after expires_at.
htmlExpired_Strict(paste, now) ==
  Truthy(paste.expires_at) /\ AtOrAfter(now - 1, paste.expires_at)

\* paste.expires_at && now >= paste.expires_at
htmlExpired(paste, now) == Truthy(paste.expires_at) /\ AtOrAfter(now, paste.expires_at)

\* paste.remaining_views !== null && paste.remaining_views <= 0
viewsExhausted(paste) ==
  paste.remaining_views # Null /\ paste.remaining_views.v <= 0

htmlAfterGet(r, got, now) ==
  IF got.r # "found" THEN Respond(r, 404, [text |-> "Paste not found"])
  ELSE LET r1 == [r EXCEPT !.loaded = got.v, !.paste = got.v, !.now = now]
       IN IF htmlExpired(got.v, now) THEN Goto(r1, "del_expired")
          ELSE IF viewsExhausted(got.v) THEN Goto(r1, "del_zero")
          ELSE Respond(r1, 200, [html |-> escapeHtml(got.v.content)])

htmlAfterDelete(r) == Respond(r, 404, [text |-> "Paste expired"])

(***************************************************************************)
(* GET /api/pastes/:id/metadata                                            *)
(***************************************************************************)
\* paste.expires_at !== null && now >= paste.expires_at
metaExpired(paste, now) ==
  paste.expires_at # Null /\ paste.expires_at.t = "number" /\ AtOrAfter(now, paste.expires_at)

metaResponse(paste) ==
  [content |-> escapeHtml(paste.content),
   remaining_views |-> paste.remaining_views,
   expires_at |-> IsoOrNull(paste.expires_at),
   created_at |-> IsoOrNull(paste.created_at)]

\* Mutant of metaAfterGet: the metadata read takes a view like the counted fetch.
metaAfterGet_Counting(r, got, now) == fetchAfterGet(r, got, now)

metaAfterGet(r, got, now) ==
  IF got.r # "found" THEN Respond(r, 404, NotFoundJson)
  ELSE LET r1 == [r EXCEPT !.loaded = got.v, !.paste = got.v, !.now = now]
       IN IF metaExpired(got.v, now) THEN Goto(r1, "del_expired")
          ELSE IF viewsExhausted(got.v) THEN Goto(r1, "del_zero")
          ELSE Respond(r1, 200, metaResponse(got.v))

metaAfterDelete(r) == Respond(r, 404, NotFoundJson)

\* The three read handlers up to their getPaste.
readStart(r, kind, id, hdr) ==
  LET r1 == [r EXCEPT !.kind = kind, !.id = id, !.hdr = hdr]
  IN IF validId(id) THEN Goto(r1, "get")
     ELSE Respond(r1, 404,
                  IF kind = "html" THEN [text |-> "Paste not found"] ELSE NotFoundJson)

(***************************************************************************)
(* What a handler does when its storage call returns.                      *)
(***************************************************************************)
afterGet(r, got, dateNow, mode, nid) ==
  CASE r.kind = "create" -> createAfterGet(r, got, dateNow, nid)
    [] r.kind = "fetch" -> fetchAfterGet(r, got, getCurrentTime(mode, r.hdr, dateNow))
    [] r.kind = "html" -> htmlAfterGet(r, got, getCurrentTime(mode, r.hdr, dateNow))
    [] r.kind = "meta" -> metaAfterGet(r, got, getCurrentTime(mode, r.hdr, dateNow))

\* deletePaste's result is not looked at by any caller.  The delete inside
\* getPaste (unparseable text) is followed by getPaste returning null.
afterDelete(r, dateNow, mode, nid) ==
  CASE r.pc = "del_corrupt" -> afterGet(r, [r |-> "absent", v |-> Null], dateNow, mode, nid)
    [] r.kind = "fetch" -> fetchAfterDelete(r)
    [] r.kind = "html" -> htmlAfterDelete(r)
    [] r.kind = "meta" -> metaAfterDelete(r)

afterSave(r) ==
  IF r.kind = "create" THEN createAfterSave(r) ELSE fetchAfterSave(r)

\* Mutant of afterSaveThrows: the failure is swallowed and the handler goes on.
afterSaveThrows_Swallowed(r) == afterSave(r)

\* savePaste throws after its last attempt: the handler's catch.
afterSaveThrows(r) == Respond(r, 500, InternalError)

(***************************************************************************)
(* Actions.                                                                *)
(***************************************************************************)
InFlight == {q \in Reqs : req[q].pc \notin {"idle", "done"}}

\* Request p arrives: its handler starts in a task of its own.
Arrives(p) ==
  /\ req[p].pc = "idle"
  /\ running = 0
  /\ \A q \in 1..(p - 1) : req[q].pc # "idle"

\* Request p's handler is resumed: no other handler is in the middle of a task.
Resumes(p) == running \in {0, p}

\* A handler gives up the event loop at its response and at every Redis
\* command; a call served by the Map returns within the same task.
Yield(p, m) == IF m.r.pc = "done" \/ redisUp THEN 0 ELSE p

\* An assignment to a field of paste made by the handler (remaining_views -= 1,
\* view_count = ... + 1) is an assignment to the Map's entry when the two are
\* one object.
Settle(store, r) ==
  IF r.shared /\ r.paste # Null THEN [store EXCEPT ![r.id] = r.paste] ELSE store

Move(p, m) ==
  /\ req' = [req EXCEPT ![p] = m.r]
  /\ resp' = [resp EXCEPT ![p] = m.resp]
  /\ running' = Yield(p, m)

\* Mutant of Attempt: the delay between attempts does not grow.
Attempt_FlatDelay(r, op, ok) ==
  [r EXCEPT !.io = Append(r.io,
     Io(op, ok, IF ok \/ r.i = Retries - 1 THEN 0 ELSE BackoffMs))]

Attempt(r, op, ok) ==
  [r EXCEPT !.io = Append(r.io,
     Io(op, ok, IF ok \/ r.i = Retries - 1 THEN 0 ELSE BackoffMs * (r.i + 1)))]

StartCreate(p, body, nid) ==
  /\ Arrives(p)
  /\ Move(p, createStart(req[p], body, nid))
  /\ UNCHANGED <<redisUp, testMode, clock, redisStore, memoryStore>>

\* POST /api/pastes of a request that carries x-test-now-ms.
StartCreateWith(p, body, nid, hdr) ==
  /\ Arrives(p)
  /\ Move(p, createStart([req[p] EXCEPT !.hdr = hdr], body, nid))
  /\ UNCHANGED <<redisUp, testMode, clock, redisStore, memoryStore>>

StartRead(p, kind, id, hdr) ==
  /\ Arrives(p)
  /\ Move(p, readStart(req[p], kind, id, hdr))
  /\ UNCHANGED <<redisUp, testMode, clock, redisStore, memoryStore>>

\* One attempt of getPaste that does not throw.
GetStep(p, nid) ==
  /\ Resumes(p)
  /\ req[p].pc = "get"
  /\ LET got == getPasteAttempt(req[p].id)
         r == [Attempt(req[p], "get", TRUE) EXCEPT
                 !.shared = ~redisUp /\ got.r = "found" /\ CloneShares]
         m == IF got.r = "corrupt" THEN Goto(r, "del_corrupt")
              ELSE afterGet(r, got, clock, testMode, nid)
     IN /\ Move(p, m)
        /\ memoryStore' = Settle(memoryStore, m.r)
  /\ UNCHANGED <<redisUp, testMode, clock, redisStore>>

\* One attempt of savePaste that does not throw.
SaveStep(p) ==
  /\ Resumes(p)
  /\ req[p].pc \in {"save_new", "save_dec", "save_vc"}
  /\ LET r == [Attempt(req[p], "save", TRUE) EXCEPT !.shared = ~redisUp /\ CloneShares]
         m == afterSave(r)
     IN /\ IF redisUp
           THEN /\ redisStore' = savePasteRedis(redisStore, r.id, r.paste)
                /\ UNCHANGED memoryStore
           ELSE /\ memoryStore' = Settle(savePasteMemory(memoryStore, r.id, r.paste), m.r)
                /\ UNCHANGED redisStore
        /\ Move(p, m)
  /\ UNCHANGED <<redisUp, testMode, clock>>

\* One attempt of deletePaste that does not throw.
DeleteStep(p, nid) ==
  /\ Resumes(p)
  /\ req[p].pc \in {"del_corrupt", "del_expired", "del_zero", "del_last"}
  /\ IF redisUp
     THEN /\ redisStore' = deletePasteRedis(redisStore, req[p].id)
          /\ UNCHANGED memoryStore
     ELSE /\ memoryStore' = deletePasteMemory(memoryStore, req[p].id)
          /\ UNCHANGED redisStore
  /\ Move(p, afterDelete([Attempt(req[p], "del", TRUE) EXCEPT !.shared = FALSE],
                         clock, testMode, nid))
  /\ UNCHANGED <<redisUp, testMode, clock>>

\* The Redis command of an attempt throws: the catch of the retry loop sleeps
\* and goes round again, or, after the last attempt, gives up.
Retry(r) == [r |-> [r EXCEPT !.i = r.i + 1], resp |-> NoResp]

\* Mutant of GetThrows: after the last failed attempt the error reaches the
\* handler's catch.
GetThrows_Raises(p, nid) ==
  /\ Resumes(p)
  /\ redisUp
  /\ req[p].pc = "get"
  /\ LET r == Attempt(req[p], "get", FALSE)
     IN Move(p, IF r.i = Retries - 1 THEN Respond(r, 500, InternalError) ELSE Retry(r))
  /\ UNCHANGED <<redisUp, testMode, clock, redisStore, memoryStore>>

\* Mutant of GetThrows: the loop gives up one attempt later.
GetThrows_FourAttempts(p, nid) ==
  /\ Resumes(p)
  /\ redisUp
  /\ req[p].pc = "get"
  /\ LET r == Attempt(req[p], "get", FALSE)
     IN Move(p, IF r.i = Retries
                THEN afterGet(r, [r |-> "absent", v |-> Null], clock, testMode, nid)
                ELSE Retry(r))
  /\ UNCHANGED <<redisUp, testMode, clock, redisStore, memoryStore>>

GetThrows(p, nid) ==
  /\ Resumes(p)
  /\ redisUp
  /\ req[p].pc = "get"
  /\ LET r == Attempt(req[p], "get", FALSE)
     IN Move(p, IF r.i = Retries - 1
                THEN afterGet(r, [r |-> "absent", v |-> Null], clock, testMode, nid)
                ELSE Retry(r))
  /\ UNCHANGED <<redisUp, testMode, clock, redisStore, memoryStore>>

SaveThrows(p) ==
  /\ Resumes(p)
  /\ redisUp
  /\ req[p].pc \in {"save_new", "save_dec", "save_vc"}
  /\ LET r == Attempt(req[p], "save", FALSE)
     IN Move(p, IF r.i = Retries - 1 THEN afterSaveThrows(r) ELSE Retry(r))
  /\ UNCHANGED <<redisUp, testMode, clock, redisStore, memoryStore>>

DeleteThrows(p, nid) ==
  /\ Resumes(p)
  /\ redisUp
  /\ req[p].pc \in {"del_corrupt", "del_expired", "del_zero", "del_last"}
  /\ LET r == Attempt(req[p], "del", FALSE)
     IN Move(p, IF r.i = Retries - 1
                THEN afterDelete(r, clock, testMode, nid)
                ELSE Retry(r))
  /\ UNCHANGED <<redisUp, testMode, clock, redisStore, memoryStore>>

\* Wall-clock time passes.
Tick(t) ==
  /\ t > clock
  /\ clock' = t
  /\ UNCHANGED <<redisUp, testMode, redisStore, memoryStore, req, resp, running>>

\* The Redis client's 'error' / 'reconnecting' and 'ready' events.
RedisDisconnects ==
  /\ running = 0
  /\ redisUp
  /\ redisUp' = FALSE
  /\ UNCHANGED <<testMode, clock, redisStore, memoryStore, req, resp, running>>

RedisReady ==
  /\ running = 0
  /\ ~redisUp
  /\ redisUp' = TRUE
  /\ UNCHANGED <<testMode, clock, redisStore, memoryStore, req, resp, running>>

\* Something else writes text under a paste key that JSON.parse rejects.
Corrupts(id) ==
  /\ redisStore[id] # Garbage
  /\ redisStore' = [redisStore EXCEPT ![id] = Garbage]
  /\ UNCHANGED <<redisUp, testMode, clock, memoryStore, req, resp, running>>

\* The identifier nanoid draws (one of ids) matters to the allocation loop only.
Draws(p, ids) == IF req[p].kind = "create" THEN ids ELSE {EmptyId}

(***************************************************************************)
(* Initial states: the process has started, both stores are empty.         *)
(***************************************************************************)
InitWith(ups, modes) ==
  /\ redisUp \in ups
  /\ testMode \in modes
  /\ clock = MsPerSec
  /\ redisStore = [id \in AllIds |-> RNil]
  /\ memoryStore = [id \in AllIds |-> Undef]
  /\ req = [p \in Reqs |-> IdleReq]
  /\ resp = [p \in Reqs |-> NoResp]
  /\ running = 0

(***************************************************************************)
(* Spec: a paste is created and then read on one identifier, one request   *)
(* after the other, against a backend that fails: up to MaxFaults Redis    *)
(* commands throw, the connection may drop and come back between two       *)
(* requests or two attempts, and the text stored under the key may be      *)
(* replaced by text that does not parse.                                   *)
(***************************************************************************)
Bodies ==
  {[content |-> Str(<<"a">>), ttl_seconds |-> Undef, max_views |-> mv] :
     mv \in {Undef, Num(1), Num(MaxViewsIn)}}

RECURSIVE Failed(_)
Failed(io) == IF io = <<>> THEN 0 ELSE (IF Head(io).ok THEN 0 ELSE 1) + Failed(Tail(io))

RECURSIVE FaultsUpTo(_)
FaultsUpTo(p) == IF p = 0 THEN 0 ELSE Failed(req[p].io) + FaultsUpTo(p - 1)
Faults == FaultsUpTo(MaxReqs)

Init == InitWith(BOOLEAN, {FALSE})

Next ==
  \/ \E p \in 1..MaxRace :
       \/ p = 1 /\ \E body \in Bodies, nid \in {Id(1, NanoidLen)} : StartCreate(p, body, nid)
       \/ InFlight = {} /\ \E kind \in {"fetch", "meta", "html"}, id \in {Id(1, NanoidLen)} :
            StartRead(p, kind, id, Undef)
       \/ \E nid \in Draws(p, {Id(1, NanoidLen)}) : GetStep(p, nid)
       \/ SaveStep(p)
       \/ \E nid \in Draws(p, {Id(1, NanoidLen)}) : DeleteStep(p, nid)
       \/ Faults < MaxFaults /\ \E nid \in Draws(p, {Id(1, NanoidLen)}) : GetThrows(p, nid)
       \/ Faults < MaxFaults /\ SaveThrows(p)
       \/ Faults < MaxFaults /\ \E nid \in Draws(p, {Id(1, NanoidLen)}) : DeleteThrows(p, nid)
  \/ RedisDisconnects
  \/ RedisReady
  \/ InFlight = {} /\ Corrupts(Id(1, NanoidLen))

Spec == Init /\ [][Next]_vars

(***************************************************************************)
(* SpecViews: requests one after the other, a backend that does not fail,  *)
(* pastes with and without a view limit and no TTL, one identifier (a      *)
(* paste created while it is in use finds every candidate taken).          *)
(***************************************************************************)
Plain == Str(<<"a">>)
OneId == {Id(1, NanoidLen)}
ViewsBodies ==
  {[content |-> Plain, ttl_seconds |-> Undef, max_views |-> mv] :
     mv \in {Undef} \cup {Num(n) : n \in 1..MaxViewsIn}}

InitViews == InitWith(BOOLEAN, {FALSE})

NextViews ==
  \E p \in Reqs :
    \/ InFlight = {} /\ \E body \in ViewsBodies, nid \in OneId : StartCreate(p, body, nid)
    \/ InFlight = {} /\ \E kind \in {"fetch", "meta", "html"}, id \in OneId :
         StartRead(p, kind, id, Undef)
    \/ \E nid \in Draws(p, OneId) : GetStep(p, nid)
    \/ SaveStep(p)
    \/ \E nid \in Draws(p, OneId) : DeleteStep(p, nid)

SpecViews == InitViews /\ [][NextViews]_vars

(***************************************************************************)
(* The history of a run, read off the requests (request p arrived p-th).   *)
(***************************************************************************)
Done(p) == req[p].pc = "done"
Created(c) == req[c].kind = "create" /\ Done(c) /\ resp[c].status = 201
Max(S) == CHOOSE x \in S : \A y \in S : y <= x

\* The request that created the record request q asks for: the last create
\* before q that returned q's identifier (0: there is none).
Owner(q) ==
  LET cs == {c \in 1..(q - 1) : Created(c) /\ req[c].id = req[q].id}
  IN IF cs = {} THEN 0 ELSE Max(cs)

\* The counted fetches of q's record from its creation up to and including q.
Fetches(q) ==
  {f \in (Owner(q) + 1)..q : req[f].kind = "fetch" /\ req[f].id = req[q].id /\ Done(f)}

Limit(q) == req[Owner(q)].body.max_views
Limited(q) == Owner(q) # 0 /\ Limit(q) # Undef

\* A timestamp in milliseconds (of the first seconds only), and d <= n.
Millis(d) == d.sec * MsPerSec + d.ms
NotAfter(d, n) == Millis(d) <= n

Stored(id) == IF redisUp THEN redisStore[id] # RNil ELSE memoryStore[id] # Undef
StoredPaste(id) == getPasteAttempt(id).v

(***************************************************************************)
(* C1: of the counted fetches that follow one another on a record created  *)
(* with max_views = N (no TTL, a backend that does not fail), exactly the  *)
(* first N answer 200 and every later one 404; from the N-th on the record *)
(* is gone: the store holds nothing under the identifier and a metadata or *)
(* HTML read answers 404.                                                  *)
(***************************************************************************)
C1_ExactlyNViews ==
  \A q \in Reqs :
    (Done(q) /\ Limited(q) /\ req[q].kind \in {"fetch", "meta", "html"}) =>
      LET N == Limit(q).v
          k == Cardinality(Fetches(q))
      IN /\ req[q].kind = "fetch" =>
              resp[q].status = (IF k <= N THEN 200 ELSE 404)
         /\ (req[q].kind # "fetch" /\ k >= N) => resp[q].status = 404
         /\ (k >= N /\ InFlight = {} /\ \A c \in (q + 1)..MaxReqs : ~Created(c)) =>
              ~Stored(req[q].id)

\* Reached: a record with max_views = 2 has served two counted fetches and
\* refused the third.
C1_Witness ==
  \E c \in Reqs :
    /\ c + 3 <= MaxReqs
    /\ Created(c) /\ req[c].body.max_views = Num(2)
    /\ \A q \in (c + 1)..(c + 3) : req[q].kind = "fetch" /\ Done(q)
    /\ resp[c + 1].status = 200 /\ resp[c + 2].status = 200 /\ resp[c + 3].status = 404
    /\ ~Stored(req[c].id)

(***************************************************************************)
(* C8: a counted fetch that answers 200 for a record loaded with           *)
(* remaining_views = r (not null) reports r - 1, and when r - 1 > 0 the    *)
(* record it leaves in the store has remaining_views = r - 1.              *)
(***************************************************************************)
C8_DecrementByOne ==
  \A q \in Reqs :
    (Done(q) /\ req[q].kind = "fetch" /\ resp[q].status = 200
       /\ req[q].loaded.remaining_views # Null) =>
      LET r == req[q].loaded.remaining_views.v
      IN /\ resp[q].body.remaining_views = Num(r - 1)
         /\ (r - 1 > 0 /\ InFlight = {} /\ \A c \in (q + 1)..MaxReqs : req[c].pc = "idle") =>
              /\ Stored(req[q].id)
              /\ StoredPaste(req[q].id).remaining_views = Num(r - 1)

\* Reached: a fetch of a record with two views left has answered and left one.
C8_Witness ==
  \E q \in Reqs :
    /\ Done(q) /\ req[q].kind = "fetch" /\ resp[q].status = 200
    /\ req[q].loaded.remaining_views = Num(2)
    /\ resp[q].body.remaining_views = Num(1)
    /\ InFlight = {}
    /\ Stored(req[q].id) /\ StoredPaste(req[q].id).remaining_views = Num(1)

(***************************************************************************)
(* SpecRace: counted fetches of one identifier overlap (up to MaxRace at a *)
(* time); pastes are created between them, each with a view limit; the     *)
(* backend does not fail.                                                  *)
(***************************************************************************)
RaceBodies ==
  {[content |-> Plain, ttl_seconds |-> Undef, max_views |-> mv] :
     mv \in {Undef} \cup {Num(n) : n \in 1..MaxViewsIn}}

InitRace == InitWith(BOOLEAN, {FALSE})

NextRace ==
  \E p \in Reqs :
    \/ InFlight = {} /\ \E body \in RaceBodies, nid \in OneId : StartCreate(p, body, nid)
    \/ /\ Cardinality(InFlight) < MaxRace
       /\ \A q \in InFlight : req[q].kind \in {"fetch", "meta"}
       /\ \E kind \in {"fetch", "meta"}, id \in OneId : StartRead(p, kind, id, Undef)
    \/ \E nid \in Draws(p, OneId) : GetStep(p, nid)
    \/ SaveStep(p)
    \/ \E nid \in Draws(p, OneId) : DeleteStep(p, nid)

SpecRace == InitRace /\ [][NextRace]_vars

\* The counted fetches of the record request c created that answered 200.
Served(c) ==
  {q \in Reqs : req[q].kind = "fetch" /\ Done(q) /\ Owner(q) = c /\ resp[q].status = 200}

(***************************************************************************)
(* C2: however counted fetches of one identifier overlap, at most N of     *)
(* them answer with the content of a record created with max_views = N.    *)
(***************************************************************************)
C2_NeverMoreThanN ==
  \A c \in Reqs :
    (Created(c) /\ req[c].body.max_views # Undef) =>
      Cardinality(Served(c)) <= req[c].body.max_views.v

(***************************************************************************)
(* C3: of the first two counted fetches of a record created with one view  *)
(* (remaining_views = 1 when they arrive), exactly one answers 200 and the *)
(* other 404, whether or not they overlap.                                 *)
(***************************************************************************)
C3_ExactlyOneWins ==
  \A c, q1, q2 \in Reqs :
    (/\ Created(c) /\ req[c].body.max_views = Num(1)
     /\ q1 < q2 /\ Owner(q1) = c /\ Owner(q2) = c
     /\ Fetches(q2) = {q1, q2}) =>
      {resp[q1].status, resp[q2].status} = {200, 404}

(***************************************************************************)
(* C4: no decrement is lost: when no request is in flight, a record that   *)
(* is still stored has remaining_views = max_views minus the number of     *)
(* counted fetches it has answered with 200.                               *)
(***************************************************************************)
C4_NoLostDecrement ==
  \A c \in Reqs :
    (/\ Created(c) /\ req[c].body.max_views # Undef
     /\ InFlight = {} /\ Stored(req[c].id)
     /\ \A c2 \in (c + 1)..MaxReqs : ~Created(c2)) =>
      StoredPaste(req[c].id).remaining_views.v =
        req[c].body.max_views.v - Cardinality(Served(c))

(***************************************************************************)
(* SpecTtl: one paste, with or without a TTL and with a one-view limit, is *)
(* created and then read by the three read handlers, one request after the *)
(* other, while time passes; with TEST_MODE on, a read may carry           *)
(* x-test-now-ms.                                                          *)
(***************************************************************************)
Header(ms) == Str(ToDigits(ms))
TtlBodies ==
  {[content |-> Plain, ttl_seconds |-> ttl, max_views |-> mv] :
     ttl \in {Undef} \cup {Num(n) : n \in 1..MaxSec}, mv \in {Num(1)}}
TtlHeaders == {Undef} \cup {Header(2 * MsPerSec + d) : d \in {-1, 0}}

InitTtl == InitWith(BOOLEAN, BOOLEAN)

NextTtl ==
  \/ \E p \in 1..MaxSeq :
       \/ p = 1 /\ \E body \in TtlBodies, nid \in OneId : StartCreate(p, body, nid)
       \/ InFlight = {} /\ \E kind \in {"fetch", "meta", "html"}, id \in OneId,
                              hdr \in IF testMode THEN TtlHeaders ELSE {Undef} :
            StartRead(p, kind, id, hdr)
       \/ \E nid \in Draws(p, OneId) : GetStep(p, nid)
       \/ SaveStep(p)
       \/ \E nid \in Draws(p, OneId) : DeleteStep(p, nid)
  \/ InFlight = {} /\ \E t \in Times : Tick(t)

SpecTtl == InitTtl /\ [][NextTtl]_vars

(***************************************************************************)
(* C5: no read handler answers 200 for a record whose expires_at is not    *)
(* null and is <= the now of the request.                                  *)
(***************************************************************************)
C5_NeverServedExpired ==
  \A q \in Reqs :
    (Done(q) /\ req[q].kind \in {"fetch", "meta", "html"} /\ resp[q].status = 200) =>
      ~(req[q].loaded.expires_at # Null /\ NotAfter(req[q].loaded.expires_at, req[q].now))

\* Reached: each read handler has answered 404 for a record it loaded at the
\* instant of its expiry, with a view left.
C5_Witness ==
  \E q \in Reqs :
    /\ Done(q) /\ req[q].kind = "html" /\ resp[q].status = 404
    /\ req[q].loaded # Null
    /\ req[q].loaded.expires_at = Date(req[q].now)
    /\ req[q].loaded.remaining_views = Num(1)

(***************************************************************************)
(* C6: a counted or metadata fetch that finds a record created at t0 with  *)
(* ttl_seconds = T, with views left, answers 200 at now = t0 + T*1000 - 1  *)
(* and 404 at now = t0 + T*1000.                                           *)
(***************************************************************************)
C6_ExpiryInclusive ==
  \A q \in Reqs :
    (/\ Done(q) /\ req[q].kind \in {"fetch", "meta"} /\ req[q].loaded # Null
     /\ Owner(q) # 0 /\ req[Owner(q)].body.ttl_seconds # Undef
     /\ ~viewsExhausted(req[q].loaded)) =>
      LET t0 == Millis(req[Owner(q)].paste.created_at)
          T == req[Owner(q)].body.ttl_seconds.v
      IN /\ req[q].now = t0 + T * MsPerSec - 1 => resp[q].status = 200
         /\ req[q].now = t0 + T * MsPerSec => resp[q].status = 404

\* Reached: the same record answers a metadata fetch one millisecond before its
\* expiry and refuses a counted fetch at its expiry.
C6_Witness ==
  \E q1, q2 \in Reqs :
    /\ q1 < q2 /\ Owner(q1) # 0 /\ Owner(q1) = Owner(q2)
    /\ Done(q1) /\ req[q1].kind = "meta" /\ resp[q1].status = 200
    /\ Done(q2) /\ req[q2].kind = "fetch" /\ resp[q2].status = 404
    /\ req[q2].loaded # Null
    /\ req[q1].now + 1 = req[q2].now
    /\ req[q2].now = Millis(req[Owner(q2)].paste.created_at)
                       + req[Owner(q2)].body.ttl_seconds.v * MsPerSec

(***************************************************************************)
(* C7: a metadata or HTML read never issues a save; the only store change  *)
(* it makes is the removal of a record it loaded expired or exhausted; and *)
(* one that answers 200 has made one load and left both stores exactly as  *)
(* they were.                                                              *)
(***************************************************************************)
C7_ReadsDoNotWrite ==
  [][\A p \in Reqs :
       (req'[p].kind \in {"meta", "html"} /\ req'[p] # req[p]) =>
         /\ \A k \in DOMAIN req'[p].io : req'[p].io[k].op # "save"
         /\ (redisStore' # redisStore \/ memoryStore' # memoryStore) =>
              /\ req[p].loaded # Null
              /\ \/ /\ req[p].loaded.expires_at # Null
                    /\ NotAfter(req[p].loaded.expires_at, req[p].now)
                 \/ /\ req[p].loaded.remaining_views # Null
                    /\ req[p].loaded.remaining_views.v <= 0
         /\ resp'[p].status = 200 =>
              /\ redisStore' = redisStore
              /\ memoryStore' = memoryStore
              /\ req'[p].io = <<Io("get", TRUE, 0)>>]_vars

\* Reached: a metadata read has answered 200 for a record with a view limit,
\* and the record is still stored with all its views.
C7_Witness ==
  \E q \in Reqs :
    /\ Done(q) /\ req[q].kind = "meta" /\ resp[q].status = 200
    /\ req[q].loaded.remaining_views = Num(1)
    /\ Stored(req[q].id)
    /\ StoredPaste(req[q].id) = req[q].loaded

(***************************************************************************)
(* SpecCreate: the first two requests may be creations, with valid and     *)
(* invalid bodies (each field in turn at and beyond its limits); reads     *)
(* follow, one request after the other; the backend does not fail.         *)
(***************************************************************************)
Contents ==
  {Plain, Str(<<"<", "a", ">">>), Str(<<"&">>), Str(<<"\"", "'">>), Str(<<" ", "a", " ">>),
   Big(<<>>, MaxContentLen), Big(<<>>, NineMiB),
   Undef, Null, Num(123), Str(<<>>), Str(<<" ", " ">>), Big(<<"a">>, MaxContentLen)}
Ttls ==
  {Undef, Null, Num(1), Num(MaxTtl),
   Num(0), Num(-1), Frac(1), NaN, Infinity, Str(<<"6", "0">>), Num(MaxTtl + 1)}
Views ==
  {Undef, Null, Num(1), Num(MaxViewsLimit),
   Num(0), Num(-1), Frac(1), Str(<<"5">>), Num(MaxViewsLimit + 1)}
CreateBodies ==
  {[content |-> c, ttl_seconds |-> Undef, max_views |-> Undef] : c \in Contents}
  \cup {[content |-> Plain, ttl_seconds |-> ttl, max_views |-> Undef] : ttl \in Ttls}
  \cup {[content |-> Plain, ttl_seconds |-> Undef, max_views |-> mv] : mv \in Views}

InitCreate == InitWith(BOOLEAN, {FALSE})

NextCreate ==
  \E p \in 1..MaxSeq :
    \/ p <= 2 /\ InFlight = {} /\ \E body \in CreateBodies, nid \in OneId :
         StartCreate(p, body, nid)
    \/ InFlight = {} /\ \E kind \in {"fetch", "meta", "html"}, id \in OneId :
         StartRead(p, kind, id, Undef)
    \/ \E nid \in Draws(p, OneId) : GetStep(p, nid)
    \/ SaveStep(p)
    \/ \E nid \in Draws(p, OneId) : DeleteStep(p, nid)

SpecCreate == InitCreate /\ [][NextCreate]_vars

SpecialChars == {"&", "<", ">", "\"", "'"}
HasSpecial(x) == \E k \in DOMAIN x.s : x.s[k] \in SpecialChars

(***************************************************************************)
(* C9 as stated: a metadata fetch of a record returns the content that was *)
(* submitted when the record was created.                                  *)
(***************************************************************************)
C9_RoundTrip ==
  \A q \in Reqs :
    (Done(q) /\ req[q].kind = "meta" /\ resp[q].status = 200 /\ Owner(q) # 0) =>
      resp[q].body.content = req[Owner(q)].body.content

(***************************************************************************)
(* C9 as amended: a metadata fetch of a record returns the submitted       *)
(* content with & < > " ' replaced by their HTML entities, which is the    *)
(* submitted content exactly when it has none of these characters.         *)
(***************************************************************************)
C9_RoundTripEscaped ==
  \A q \in Reqs :
    (Done(q) /\ req[q].kind = "meta" /\ resp[q].status = 200 /\ Owner(q) # 0) =>
      LET sent == req[Owner(q)].body.content
          back == resp[q].body.content
      IN /\ back.pad = sent.pad
         /\ Len(back.s) >= Len(sent.s)
         /\ \A k \in DOMAIN back.s : back.s[k] \notin SpecialChars \ {"&"}
         /\ (back = sent) <=> ~HasSpecial(sent)

\* Reached: the metadata fetch of a paste created with content <a> has answered
\* with &lt;a&gt;.
C9_Witness ==
  \E q \in Reqs :
    /\ Done(q) /\ req[q].kind = "meta" /\ resp[q].status = 200 /\ Owner(q) # 0
    /\ req[Owner(q)].body.content = Str(<<"<", "a", ">">>)
    /\ resp[q].body.content = Str(<<"&", "l", "t", ";", "a", "&", "g", "t", ";">>)

(***************************************************************************)
(* C10: a creation whose body is invalid (content missing, not a string,   *)
(* blank or over 10 MiB; ttl_seconds or max_views present and not an       *)
(* integer within its range) answers 400 in the step it arrives in, having *)
(* made no storage call, and leaves both stores as they were.              *)
(***************************************************************************)
InRange(x, lo, hi) == x.t = "number" /\ x.k = "int" /\ lo <= x.v /\ x.v <= hi
InvalidBody(body) ==
  \/ body.content.t # "string"
  \/ Length(body.content) > MaxContentLen
  \/ /\ body.content.pad = 0
     /\ \A k \in DOMAIN body.content.s : body.content.s[k] \in Whitespace
  \/ ~IsNullish(body.ttl_seconds) /\ ~InRange(body.ttl_seconds, 1, MaxTtl)
  \/ ~IsNullish(body.max_views) /\ ~InRange(body.max_views, 1, MaxViewsLimit)

C10_InvalidCreateTouchesNothing ==
  [][\A p \in Reqs :
       (req[p].pc = "idle" /\ req'[p].kind = "create" /\ InvalidBody(req'[p].body)) =>
         /\ req'[p].pc = "done"
         /\ resp'[p].status = 400
         /\ req'[p].io = <<>>
         /\ redisStore' = redisStore
         /\ memoryStore' = memoryStore]_vars

\* Reached: a creation with ttl_seconds = 1.5 has been refused while a paste
\* is stored, without a storage call.
C10_Witness ==
  \E c \in Reqs :
    /\ Done(c) /\ req[c].kind = "create" /\ req[c].body.ttl_seconds = Frac(1)
    /\ resp[c].status = 400 /\ req[c].io = <<>>
    /\ \E id \in OneId : Stored(id)

(***************************************************************************)
(* C11 as stated: a creation is refused for its content exactly when the   *)
(* content is missing or null, not a string, blank, or longer than 10 MiB; *)
(* a content of exactly 10 MiB, or of 9 MiB, is not refused.               *)
(***************************************************************************)
Blank(x) == x.pad = 0 /\ \A k \in DOMAIN x.s : x.s[k] \in Whitespace
BadContent(x) == x.t # "string" \/ Blank(x) \/ Length(x) > MaxContentLen
BadTtl(x) == ~IsNullish(x) /\ ~InRange(x, 1, MaxTtl)
BadViews(x) == ~IsNullish(x) /\ ~InRange(x, 1, MaxViewsLimit)
Creation(c) == Done(c) /\ req[c].kind = "create"

C11_ContentValidation ==
  \A c \in Reqs :
    (Creation(c) /\ ~BadTtl(req[c].body.ttl_seconds)
       /\ ~BadViews(req[c].body.max_views)) =>
      (resp[c].status = 400 <=> BadContent(req[c].body.content))

(***************************************************************************)
(* C12: a creation whose content passes (in a body the parser takes) is    *)
(* refused with a ttl_seconds error exactly when ttl_seconds is present    *)
(* and is not an integer in [1, 31536000]; 1 and 31536000 pass.            *)
(***************************************************************************)
TtlErrors ==
  {"ttl_seconds must be a number", "ttl_seconds must be an integer",
   "ttl_seconds must be >= 1", "ttl_seconds cannot exceed 1 year"}

C12_TtlValidation ==
  \A c \in Reqs :
    (Creation(c) /\ ~BadContent(req[c].body.content)
       /\ BodyBytes(req[c].body) <= BodyLimit) =>
      /\ BadTtl(req[c].body.ttl_seconds) <=>
            (resp[c].status = 400 /\ resp[c].body.error \in TtlErrors)
      /\ (~BadTtl(req[c].body.ttl_seconds) /\ ~BadViews(req[c].body.max_views)) =>
            resp[c].status # 400

\* Reached: one creation with ttl_seconds = 31536001 has been refused and one
\* with ttl_seconds = 31536000 has stored a paste that expires a year later.
C12_Witness ==
  \E c1, c2 \in Reqs :
    /\ Creation(c1) /\ req[c1].body.ttl_seconds = Num(MaxTtl + 1)
    /\ resp[c1].status = 400
    /\ Creation(c2) /\ req[c2].body.ttl_seconds = Num(MaxTtl)
    /\ resp[c2].status = 201
    /\ Stored(req[c2].id)
    /\ StoredPaste(req[c2].id).expires_at
         = PlusSeconds(StoredPaste(req[c2].id).created_at, MaxTtl)

(***************************************************************************)
(* C13: a creation whose content and ttl_seconds pass (in a body the       *)
(* parser takes) is refused with a max_views error exactly when max_views  *)
(* is present and is not an integer in [1, 1000000].                       *)
(***************************************************************************)
ViewsErrors ==
  {"max_views must be a number", "max_views must be an integer",
   "max_views must be >= 1", "max_views cannot exceed 1,000,000"}

C13_ViewsValidation ==
  \A c \in Reqs :
    (Creation(c) /\ ~BadContent(req[c].body.content)
       /\ BodyBytes(req[c].body) <= BodyLimit
       /\ ~BadTtl(req[c].body.ttl_seconds)) =>
      /\ BadViews(req[c].body.max_views) <=>
            (resp[c].status = 400 /\ resp[c].body.error \in ViewsErrors)
      /\ ~BadViews(req[c].body.max_views) => resp[c].status # 400

\* Reached: one creation with max_views = 0 has been refused and one with
\* max_views = 1000000 has stored a paste with 1000000 views left.
C13_Witness ==
  \E c1, c2 \in Reqs :
    /\ Creation(c1) /\ req[c1].body.max_views = Num(0) /\ resp[c1].status = 400
    /\ Creation(c2) /\ req[c2].body.max_views = Num(MaxViewsLimit)
    /\ resp[c2].status = 201
    /\ Stored(req[c2].id)
    /\ StoredPaste(req[c2].id).remaining_views = Num(MaxViewsLimit)

(***************************************************************************)
(* C14 as stated (SpecTtl): two reads of the same kind that both answer    *)
(* 404, whatever the cause, get the same response.                         *)
(***************************************************************************)
C14_NotFoundUniform ==
  \A q1, q2 \in Reqs :
    (/\ Done(q1) /\ Done(q2)
     /\ req[q1].kind \in {"fetch", "meta", "html"} /\ req[q1].kind = req[q2].kind
     /\ resp[q1].status = 404 /\ resp[q2].status = 404) =>
      resp[q1] = resp[q2]

\* The records held by the two stores.
StoredRecords ==
  {redisStore[id].json : id \in {i \in DOMAIN redisStore : "json" \in DOMAIN redisStore[i]}}
    \cup {memoryStore[id] : id \in {i \in DOMAIN memoryStore : memoryStore[i] # Undef}}

(***************************************************************************)
(* C15 (SpecRace): every stored record has remaining_views = null exactly  *)
(* when its max_views = null.                                              *)
(***************************************************************************)
C15_NullTogether ==
  \A rec \in StoredRecords : (rec.remaining_views = Null) <=> (rec.max_views = Null)

\* Reached: while two requests are in flight, the stored record has a limit
\* and a view already taken from it.
C15_Witness ==
  /\ Cardinality(InFlight) = MaxRace
  /\ \E rec \in StoredRecords :
       /\ rec.max_views = Num(MaxViewsIn)
       /\ rec.remaining_views = Num(MaxViewsIn - 1)
       /\ rec.view_count = Num(1)

(***************************************************************************)
(* C16 (SpecRace): every stored record has remaining_views null or in      *)
(* [1, max_views], in every state of overlapping requests; no request ever *)
(* loads a record with remaining_views <= 0, so the branch that deletes an *)
(* already exhausted record is never taken.                                *)
(***************************************************************************)
C16_RemainingInRange ==
  /\ \A rec \in StoredRecords :
       \/ rec.remaining_views = Null
       \/ /\ rec.remaining_views.k = "int" /\ rec.max_views # Null
          /\ 1 <= rec.remaining_views.v
          /\ rec.remaining_views.v <= rec.max_views.v
  /\ \A q \in Reqs :
       /\ req[q].pc # "del_zero"
       /\ (req[q].loaded # Null /\ req[q].loaded.remaining_views # Null) =>
            req[q].loaded.remaining_views.v >= 1

\* Reached: two overlapping counted fetches have both taken the last view of
\* a record and answered, and nothing is stored under the identifier.
C16_Witness ==
  \E q1, q2 \in Reqs :
    /\ q1 < q2 /\ req[q1].id = req[q2].id
    /\ Done(q1) /\ req[q1].kind = "fetch" /\ resp[q1].status = 200
    /\ Done(q2) /\ req[q2].kind = "fetch" /\ resp[q2].status = 200
    /\ req[q1].loaded.remaining_views = Num(1)
    /\ req[q2].loaded.remaining_views = Num(1)
    /\ resp[q1].body.remaining_views = Num(0)
    /\ ~Stored(req[q1].id)
    /\ StoredRecords = {}

(***************************************************************************)
(* C17 (Spec): a creation or counted fetch one of whose saves has failed   *)
(* on every attempt has answered 500 with the generic error: it returned   *)
(* no identifier and no content.                                           *)
(***************************************************************************)
ExhaustedSave(q) ==
  \E k \in 1..(Len(req[q].io) - Retries + 1) :
    \A j \in 0..(Retries - 1) :
      req[q].io[k + j].op = "save" /\ ~req[q].io[k + j].ok

C17_SaveFailureSurfaces ==
  \A q \in Reqs :
    (req[q].kind \in {"create", "fetch"} /\ ExhaustedSave(q)) =>
      /\ Done(q)
      /\ resp[q].status = 500
      /\ resp[q].body = [error |-> "Internal server error"]

\* Reached: a counted fetch has loaded a record, its save has failed three
\* times, and it has answered 500.
C17_Witness ==
  \E q \in Reqs :
    /\ req[q].kind = "fetch" /\ req[q].loaded # Null
    /\ ExhaustedSave(q)
    /\ Done(q) /\ resp[q].status = 500

TestHeaders == {Header(sec * MsPerSec) : sec \in 0..MaxSec} \cup {Header(MsPerSec - 1)}
TestBodies ==
  {[content |-> Plain, ttl_seconds |-> Num(n), max_views |-> mv] :
     n \in 1..MaxSec, mv \in {Undef, Num(1)}}

InitTest == InitWith(BOOLEAN, {TRUE})

NextTest ==
  \E p \in 1..MaxSeq :
    \/ p = 1 /\ \E body \in TestBodies, nid \in OneId, hdr \in TestHeaders :
         StartCreateWith(p, body, nid, hdr)
    \/ InFlight = {} /\ \E kind \in {"fetch", "meta", "html"}, id \in OneId,
                           hdr \in TestHeaders :
         StartRead(p, kind, id, hdr)
    \/ \E nid \in Draws(p, OneId) : GetStep(p, nid)
    \/ SaveStep(p)
    \/ \E nid \in Draws(p, OneId) : DeleteStep(p, nid)

SpecTest == InitTest /\ [][NextTest]_vars

(***************************************************************************)
(* C19 as stated (SpecTest): in test mode a counted fetch carrying         *)
(* x-test-now-ms = t finds a record, created with ttl_seconds = T by a     *)
(* request carrying x-test-now-ms = t0, served when t < t0 + T*1000 and    *)
(* not found when t >= t0 + T*1000.                                        *)
(***************************************************************************)
C19_TestClockDecidesExpiry ==
  \A q \in Reqs :
    (/\ testMode /\ Done(q) /\ req[q].kind = "fetch" /\ req[q].loaded # Null
     /\ Owner(q) # 0 /\ req[Owner(q)].hdr # Undef /\ req[q].hdr # Undef) =>
      LET t0 == parseInt(req[Owner(q)].hdr).v
          t == parseInt(req[q].hdr).v
          T == req[Owner(q)].body.ttl_seconds.v
      IN /\ t < t0 + T * MsPerSec => resp[q].status = 200
         /\ t >= t0 + T * MsPerSec => resp[q].status = 404

(***************************************************************************)
(* C20 (SpecTtl): for a record with a TTL and a view limit, a counted      *)
(* fetch at or after expires_at deletes it and answers 404 without taking  *)
(* a view; a counted fetch that takes the last view before expires_at      *)
(* deletes it and answers 200; and every later read of the identifier      *)
(* finds nothing and deletes nothing.                                      *)
(***************************************************************************)
C20_FirstConstraintDeletes ==
  \A q \in Reqs :
    (/\ Done(q) /\ req[q].kind = "fetch" /\ req[q].loaded # Null
     /\ req[q].loaded.expires_at # Null /\ req[q].loaded.remaining_views # Null) =>
      LET expired == NotAfter(req[q].loaded.expires_at, req[q].now)
          last == req[q].loaded.remaining_views = Num(1)
      IN /\ expired =>
              /\ resp[q] = [status |-> 404, body |-> [error |-> "Paste not found"]]
              /\ req[q].io = <<Io("get", TRUE, 0), Io("del", TRUE, 0)>>
              /\ req[q].paste = req[q].loaded
         /\ (~expired /\ last) =>
              /\ resp[q].status = 200
              /\ resp[q].body.remaining_views = Num(0)
              /\ req[q].io = <<Io("get", TRUE, 0), Io("del", TRUE, 0)>>
         /\ (expired \/ last) =>
              \A q2 \in (q + 1)..MaxReqs :
                (Done(q2) /\ req[q2].id = req[q].id /\ Owner(q2) = Owner(q)) =>
                  /\ req[q2].loaded = Null
                  /\ req[q2].io = <<Io("get", TRUE, 0)>>
                  /\ resp[q2].status = 404

\* Reached: a counted fetch has taken the last view before the expiry, and a
\* counted fetch at the instant of the expiry has found nothing to delete.
C20_Witness ==
  \E q, q2 \in Reqs :
    /\ q < q2 /\ Owner(q) # 0 /\ Owner(q2) = Owner(q)
    /\ Done(q) /\ req[q].kind = "fetch" /\ resp[q].status = 200
    /\ req[q].loaded.remaining_views = Num(1)
    /\ req[q].loaded.expires_at # Null
    /\ ~NotAfter(req[q].loaded.expires_at, req[q].now)
    /\ Done(q2) /\ req[q2].kind = "fetch" /\ req[q2].hdr = Undef
    /\ clock = Millis(req[q].loaded.expires_at)
    /\ req[q2].io = <<Io("get", TRUE, 0)>> /\ resp[q2].status = 404

(***************************************************************************)
(* SpecAlloc: creations follow one another, nanoid drawing from MaxIds     *)
(* identifiers, so that candidates collide with the records already        *)
(* stored; the backend does not fail.                                      *)
(***************************************************************************)
AllocBodies == {[content |-> Plain, ttl_seconds |-> Undef, max_views |-> Undef]}

InitAlloc == InitWith(BOOLEAN, {FALSE})

NextAlloc ==
  \E p \in 1..MaxSeq :
    \/ InFlight = {} /\ \E body \in AllocBodies, nid \in GenIds : StartCreate(p, body, nid)
    \/ \E nid \in Draws(p, GenIds) : GetStep(p, nid)
    \/ SaveStep(p)

SpecAlloc == InitAlloc /\ [][NextAlloc]_vars

(***************************************************************************)
(* C21 (SpecAlloc): in a creation, a candidate identifier under which the  *)
(* load finds a record is not used: another is drawn, and after the tenth  *)
(* such candidate the creation answers 500 "Failed to generate unique ID"; *)
(* neither changes the stores.  The first candidate found absent is kept   *)
(* for the save, and the creation then answers 201 with that identifier    *)
(* and nothing else, the new record being stored under it.                 *)
(***************************************************************************)
C21_Allocation ==
  [][\A p \in Reqs :
       (req[p].kind = "create" /\ req'[p] # req[p]) =>
         /\ (req[p].pc = "get" /\ Stored(req[p].id)) =>
              /\ req'[p].pc # "save_new"
              /\ req'[p].attempts = req[p].attempts + 1
              /\ redisStore' = redisStore /\ memoryStore' = memoryStore
              /\ IF req'[p].attempts < maxAttempts
                 THEN req'[p].pc = "get" /\ req'[p].id \in GenIds
                 ELSE /\ req'[p].pc = "done"
                      /\ resp'[p] = [status |-> 500,
                                     body |-> [error |-> "Failed to generate unique ID"]]
         /\ (req[p].pc = "get" /\ ~Stored(req[p].id)) =>
              /\ req'[p].pc = "save_new"
              /\ req'[p].id = req[p].id
              /\ req'[p].attempts = req[p].attempts
         /\ req[p].pc = "save_new" =>
              /\ req'[p].pc = "done"
              /\ resp'[p] = [status |-> 201,
                             body |-> [id |-> req[p].id, url |-> [p |-> req[p].id]]]
              /\ (IF redisUp THEN redisStore' ELSE memoryStore')[req[p].id]
                   # (IF redisUp THEN redisStore ELSE memoryStore)[req[p].id]]_vars

\* Reached: one creation has drawn a taken identifier once and then stored its
\* record under a free one, and another has given up after ten taken candidates.
C21_Witness ==
  \E c1, c2 \in Reqs :
    /\ Created(c1) /\ req[c1].attempts = 1 /\ Stored(req[c1].id)
    /\ Done(c2) /\ req[c2].kind = "create" /\ req[c2].attempts = maxAttempts
    /\ resp[c2].status = 500
    /\ \A id \in GenIds : Stored(id)

(***************************************************************************)
(* SpecExpire: one paste with a TTL is created and then read, one request  *)
(* after the other, while time passes; a Redis delete may fail, within the *)
(* fault budget.                                                           *)
(***************************************************************************)
ExpireBodies ==
  {[content |-> Plain, ttl_seconds |-> Num(n), max_views |-> Undef] : n \in 1..MaxSec}

InitExpire == InitWith(BOOLEAN, {FALSE})

NextExpire ==
  \/ \E p \in 1..MaxSeq :
       \/ p = 1 /\ \E body \in ExpireBodies, nid \in OneId : StartCreate(p, body, nid)
       \/ InFlight = {} /\ \E kind \in {"fetch", "meta", "html"}, id \in OneId :
            StartRead(p, kind, id, Undef)
       \/ \E nid \in Draws(p, OneId) : GetStep(p, nid)
       \/ SaveStep(p)
       \/ \E nid \in Draws(p, OneId) : DeleteStep(p, nid)
       \/ Faults < MaxFaults /\ \E nid \in Draws(p, OneId) : DeleteThrows(p, nid)
  \/ InFlight = {} /\ \E t \in Times : Tick(t)

SpecExpire == InitExpire /\ [][NextExpire]_vars

(***************************************************************************)
(* C22 as stated (SpecExpire): once a counted or metadata fetch that       *)
(* loaded a record at or after its expires_at has answered, and before any *)
(* later request arrives, nothing is stored under the identifier, also     *)
(* when the delete calls of the backend fail.                              *)
(***************************************************************************)
C22_ExpiredIsRemoved ==
  \A q \in Reqs :
    (/\ Done(q) /\ req[q].kind \in {"fetch", "meta"} /\ req[q].loaded # Null
     /\ req[q].loaded.expires_at # Null
     /\ NotAfter(req[q].loaded.expires_at, req[q].now)
     /\ \A q2 \in (q + 1)..MaxReqs : req[q2].pc = "idle") =>
      redisStore[req[q].id] = RNil /\ memoryStore[req[q].id] = Undef

(***************************************************************************)
(* C23 (Spec): a read whose load has failed on each of its three attempts  *)
(* has answered the 404 of an unknown identifier, having loaded nothing    *)
(* and made no other storage call; no read answers 500 for a failed load.  *)
(***************************************************************************)
FailedLoad ==
  <<Io("get", FALSE, BackoffMs), Io("get", FALSE, 2 * BackoffMs), Io("get", FALSE, 0)>>

C23_FailedLoadIsAbsent ==
  \A q \in Reqs :
    /\ (/\ req[q].kind \in {"fetch", "meta", "html"}
        /\ Len(req[q].io) >= Retries
        /\ SubSeq(req[q].io, 1, Retries) = FailedLoad) =>
         /\ Done(q) /\ req[q].io = FailedLoad /\ req[q].loaded = Null
         /\ resp[q] = [status |-> 404,
                       body |-> IF req[q].kind = "html" THEN [text |-> "Paste not found"]
                                ELSE [error |-> "Paste not found"]]
    /\ (req[q].kind \in {"fetch", "meta", "html"} /\ Done(q) /\ resp[q].status = 500) =>
         \E k \in DOMAIN req[q].io : req[q].io[k].op = "save" /\ ~req[q].io[k].ok

\* Reached: a counted fetch of a stored record has answered 404 after three
\* failed loads, and the record is still stored.
C23_Witness ==
  \E q \in Reqs :
    /\ Done(q) /\ req[q].kind = "fetch" /\ req[q].io = FailedLoad
    /\ resp[q].status = 404
    /\ redisUp /\ redisStore[req[q].id] \notin {RNil, Garbage}

(***************************************************************************)
(* C24 (Spec): every step of savePaste is one backend attempt, the first,  *)
(* second or third of the call.  An attempt that succeeds ends the call    *)
(* without a delay and without an error; a failed first or second attempt  *)
(* is followed by a delay of 100 ms times its number and another attempt,  *)
(* the stores unchanged; a failed third attempt raises, and the handler    *)
(* answers 500.                                                            *)
(***************************************************************************)
SavePcs == {"save_new", "save_dec", "save_vc"}

C24_SaveRetries ==
  [][\A p \in Reqs :
       (req[p].pc \in SavePcs /\ req'[p] # req[p]) =>
         LET n == req[p].i + 1
             a == req'[p].io[Len(req'[p].io)]
         IN /\ n <= Retries
            /\ req'[p].io = Append(req[p].io, a)
            /\ a.op = "save"
            /\ a.ok =>
                 /\ a.sleep = 0
                 /\ req'[p].pc # req[p].pc
                 /\ resp'[p].status \in {0, 200, 201}
            /\ (~a.ok /\ n < Retries) =>
                 /\ a.sleep = 100 * n
                 /\ req'[p].pc = req[p].pc /\ req'[p].i = n
                 /\ resp'[p].status = 0
                 /\ redisStore' = redisStore /\ memoryStore' = memoryStore
            /\ (~a.ok /\ n = Retries) =>
                 /\ a.sleep = 0
                 /\ req'[p].pc = "done"
                 /\ resp'[p] = [status |-> 500, body |-> [error |-> "Internal server error"]]
                 /\ redisStore' = redisStore /\ memoryStore' = memoryStore]_vars

\* Reached: a creation has stored its record at the third attempt of its save,
\* after delays of 100 ms and 200 ms, and answered 201.
C24_Witness ==
  \E c \in Reqs :
    /\ Created(c)
    /\ req[c].io = <<Io("get", TRUE, 0), Io("save", FALSE, 100),
                     Io("save", FALSE, 200), Io("save", TRUE, 0)>>
    /\ Stored(req[c].id)

(***************************************************************************)
(* SpecDelete: pastes with one view are created under MaxIds identifiers,  *)
(* one creation at a time, and counted fetches of them overlap (up to      *)
(* MaxRace at a time), so that a record is deleted more than once; the     *)
(* backend does not fail.                                                  *)
(***************************************************************************)
DeleteBodies == {[content |-> Plain, ttl_seconds |-> Undef, max_views |-> Num(1)]}

InitDelete == InitWith(BOOLEAN, {FALSE})

NextDelete ==
  \E p \in Reqs :
    \/ p <= MaxIds /\ InFlight = {} /\ \E body \in DeleteBodies, nid \in GenIds :
         StartCreate(p, body, nid)
    \/ /\ Cardinality(InFlight) < MaxRace
       /\ \A q \in InFlight : req[q].kind = "fetch"
       /\ \E id \in GenIds : StartRead(p, "fetch", id, Undef)
    \/ \E nid \in Draws(p, GenIds) : GetStep(p, nid)
    \/ SaveStep(p)
    \/ \E nid \in Draws(p, GenIds) : DeleteStep(p, nid)

SpecDelete == InitDelete /\ [][NextDelete]_vars

(***************************************************************************)
(* C25 (SpecDelete): a delete leaves nothing under its identifier and      *)
(* every other identifier's record as it was; on an identifier with no     *)
(* record it changes nothing and succeeds like any other delete; deleting  *)
(* again from the resulting store changes nothing.                         *)
(***************************************************************************)
DelPcs == {"del_corrupt", "del_expired", "del_zero", "del_last"}

C25_DeleteIdempotent ==
  [][\A p \in Reqs :
       (req[p].pc \in DelPcs /\ req'[p] # req[p]) =>
         LET id == req[p].id
             a == req'[p].io[Len(req'[p].io)]
         IN /\ a = Io("del", TRUE, 0)
            /\ redisStore'[id] = (IF redisUp THEN RNil ELSE redisStore[id])
            /\ memoryStore'[id] = (IF redisUp THEN memoryStore[id] ELSE Undef)
            /\ \A other \in AllIds \ {id} :
                 redisStore'[other] = redisStore[other]
                   /\ memoryStore'[other] = memoryStore[other]
            /\ ~Stored(id) => (redisStore' = redisStore /\ memoryStore' = memoryStore)
            /\ deletePasteRedis(redisStore', id) = redisStore' \/ ~redisUp
            /\ deletePasteMemory(memoryStore', id) = memoryStore' \/ redisUp]_vars

\* Reached: two overlapping fetches have both deleted the same record, the
\* second delete finding nothing, while another identifier's record is stored.
C25_Witness ==
  \E q1, q2 \in Reqs :
    /\ q1 # q2 /\ req[q1].id = req[q2].id
    /\ Done(q1) /\ req[q1].io = <<Io("get", TRUE, 0), Io("del", TRUE, 0)>>
    /\ Done(q2) /\ req[q2].io = <<Io("get", TRUE, 0), Io("del", TRUE, 0)>>
    /\ ~Stored(req[q1].id)
    /\ \E other \in GenIds \ {req[q1].id} : Stored(other)

(***************************************************************************)
(* SpecClock: with TEST_MODE on or off, one paste with a TTL of a second   *)
(* is created and then read by a request with or without x-test-now-ms,   *)
(* well-formed or not; the wall clock stands at one second.                *)
(***************************************************************************)
ClockHeaders ==
  {Undef, Str(<<>>), Str(<<"a">>), Str(<<"-", "5">>), Header(0), Header(MaxSec * MsPerSec),
   Str(ToDigits(MaxSec * MsPerSec) \o <<"x">>), Str(<<"1", ".", "5">>)}
ClockBodies == {[content |-> Plain, ttl_seconds |-> Num(1), max_views |-> Undef]}

InitClock == InitWith(BOOLEAN, BOOLEAN)

NextClock ==
  \E p \in 1..MaxRace :
    \/ p = 1 /\ \E body \in ClockBodies, nid \in OneId : StartCreate(p, body, nid)
    \/ InFlight = {} /\ \E kind \in {"fetch", "meta", "html"}, id \in OneId,
                           hdr \in ClockHeaders :
         StartRead(p, kind, id, hdr)
    \/ \E nid \in Draws(p, OneId) : GetStep(p, nid)
    \/ SaveStep(p)
    \/ \E nid \in Draws(p, OneId) : DeleteStep(p, nid)

SpecClock == InitClock /\ [][NextClock]_vars

(***************************************************************************)
(* C26 as stated (SpecClock): the time a read takes for its expiry check   *)
(* is the value of x-test-now-ms when test mode is on and the header is an *)
(* integer >= 0, and the wall clock in every other case: test mode off,    *)
(* header missing, empty, not a number, not an integer, or negative.       *)
(***************************************************************************)
WellFormed(hdr) ==
  /\ hdr.t = "string" /\ hdr.s # <<>>
  /\ \A k \in DOMAIN hdr.s : IsDigit(hdr.s[k])

C26_ClockOverride ==
  \A q \in Reqs :
    (Done(q) /\ req[q].kind \in {"fetch", "meta", "html"} /\ req[q].loaded # Null) =>
      IF testMode /\ WellFormed(req[q].hdr)
      THEN req[q].hdr = Header(req[q].now)
      ELSE req[q].now = clock

(***************************************************************************)
(* C27: with the fallback store, every record that crosses the adapter     *)
(* boundary is an independent copy.  While the Map is the store, its entry *)
(* under an identifier changes only in a step where a request on that      *)
(* identifier completes a save, to the object's value at the time of the   *)
(* save, or a delete, to nothing; an assignment the handler makes to the   *)
(* object it saved or loaded changes no entry, and a load returns the      *)
(* entry as it was last saved and leaves it as it is.                      *)
(***************************************************************************)
C27_IndependentCopies ==
  [][~redisUp =>
       /\ \A id \in AllIds :
            memoryStore'[id] # memoryStore[id] =>
              \E p \in Reqs :
                /\ req[p].id = id
                /\ \/ req[p].pc \in SavePcs /\ memoryStore'[id] = req[p].paste
                   \/ req[p].pc \in DelPcs /\ memoryStore'[id] = Undef
       /\ \A p \in Reqs :
            (req[p].pc = "get" /\ req'[p].loaded # Null) =>
              /\ req'[p].loaded = memoryStore[req[p].id]
              /\ memoryStore' = memoryStore]_vars

\* A counted fetch has saved the decrement and then bumped view_count on the
\* object it saved: the Map's entry still has the view_count that was saved.
C27_Witness ==
  \E p \in Reqs :
    /\ ~redisUp
    /\ req[p].pc = "save_vc"
    /\ memoryStore[req[p].id] # Undef
    /\ memoryStore[req[p].id].remaining_views = req[p].paste.remaining_views
    /\ memoryStore[req[p].id].view_count = req[p].loaded.view_count
    /\ req[p].paste.view_count # req[p].loaded.view_count

(***************************************************************************)
(* SpecReplace: pastes of two contents are created and fetched on one      *)
(* identifier (nanoid draws an identifier that may be taken), the requests *)
(* may overlap, and up to MaxFaults Redis commands of a load throw.        *)
(***************************************************************************)
ReplaceBodies ==
  {[content |-> Str(<<"a">>), ttl_seconds |-> Undef, max_views |-> Num(1)],
   [content |-> Str(<<"b">>), ttl_seconds |-> Undef, max_views |-> Num(MaxViewsIn)]}

InitReplace == InitWith(BOOLEAN, {FALSE})

NextReplace ==
  \E p \in 1..MaxRace :
    \/ \E body \in ReplaceBodies, nid \in OneId : StartCreate(p, body, nid)
    \/ \E id \in OneId : StartRead(p, "fetch", id, Undef)
    \/ \E nid \in Draws(p, OneId) : GetStep(p, nid)
    \/ SaveStep(p)
    \/ \E nid \in Draws(p, OneId) : DeleteStep(p, nid)
    \/ Faults < MaxFaults /\ \E nid \in Draws(p, OneId) : GetThrows(p, nid)

SpecReplace == InitReplace /\ [][NextReplace]_vars

\* The fields of a record that are fixed at its creation.
Fixed(rec) ==
  [content |-> rec.content, created_at |-> rec.created_at,
   expires_at |-> rec.expires_at, max_views |-> rec.max_views]

\* The record a store holds under an identifier, or Null.
RedisRecord(store, id) == IF JSONparse(store[id]).ok THEN JSONparse(store[id]).v ELSE Null
MemoryRecord(store, id) == IF store[id] # Undef THEN store[id] ELSE Null

\* A step from a record (before) to a record (after) under one identifier
\* keeps the fixed fields, and changes the record only if a counted fetch
\* of that identifier is saving.
KeepsRecord(before, after, id) ==
  (before # Null /\ after # Null) =>
    /\ Fixed(after) = Fixed(before)
    /\ after # before =>
         \E p \in Reqs : req[p].kind = "fetch" /\ req[p].id = id /\ req[p].pc \in SavePcs

(***************************************************************************)
(* C28: from its creation to its deletion the content, created_at,         *)
(* expires_at and max_views stored under an identifier do not change: a    *)
(* step that leaves a record where one was keeps these four fields, and    *)
(* changes the record only when a counted fetch saves it (no create        *)
(* replaces the record of an identifier in use).                           *)
(***************************************************************************)
C28_FixedFields ==
  [][\A id \in AllIds :
       /\ KeepsRecord(RedisRecord(redisStore, id), RedisRecord(redisStore', id), id)
       /\ KeepsRecord(MemoryRecord(memoryStore, id), MemoryRecord(memoryStore', id), id)]_vars

(***************************************************************************)
(* SpecIds: reads, one after the other, that name a generated identifier,  *)
(* no identifier, one of MaxIdLen characters and one of MaxIdLen + 1,      *)
(* after a paste may have been created.                                    *)
(***************************************************************************)
ReadIds == OneId \cup {EmptyId, LongId, TooLongId}

InitIds == InitWith(BOOLEAN, {FALSE})

NextIds ==
  \E p \in 1..MaxSeq :
    \/ p = 1 /\ \E body \in AllocBodies, nid \in OneId : StartCreate(p, body, nid)
    \/ InFlight = {} /\ \E kind \in {"fetch", "meta", "html"}, id \in ReadIds :
         StartRead(p, kind, id, Undef)
    \/ \E nid \in Draws(p, OneId) : GetStep(p, nid)
    \/ SaveStep(p)

SpecIds == InitIds /\ [][NextIds]_vars

(***************************************************************************)
(* C29: a counted fetch, metadata read or HTML view whose identifier is    *)
(* empty or longer than MaxIdLen characters answers 404 "Paste not found"  *)
(* at once, having issued no load, save or delete; one whose identifier    *)
(* has exactly MaxIdLen characters is accepted and issues a load.         *)
(***************************************************************************)
C29_IdCheck ==
  \A q \in Reqs :
    req[q].kind \in {"fetch", "meta", "html"} =>
      /\ (req[q].id.len = 0 \/ req[q].id.len > MaxIdLen) =>
           /\ Done(q)
           /\ resp[q].status = 404
           /\ resp[q].body =
                (IF req[q].kind = "html" THEN [text |-> "Paste not found"] ELSE NotFoundJson)
           /\ req[q].io = <<>>
      /\ req[q].id.len = MaxIdLen =>
           \/ req[q].pc = "get" /\ req[q].io = <<>>
           \/ Done(q) /\ req[q].io # <<>> /\ req[q].io[1].op = "get"

\* Reached: a read of MaxIdLen + 1 characters was refused without a storage
\* call, one of no characters too, and one of MaxIdLen characters was loaded.
C29_Witness ==
  \E q1, q2, q3 \in Reqs :
    /\ Done(q1) /\ req[q1].kind # "none" /\ req[q1].id = TooLongId /\ req[q1].io = <<>>
    /\ Done(q2) /\ req[q2].kind = "fetch" /\ req[q2].id = EmptyId /\ req[q2].io = <<>>
    /\ Done(q3) /\ req[q3].id = LongId /\ Len(req[q3].io) = 1 /\ resp[q3].status = 404

\* The view_count of the record a store holds under an identifier does not
\* go down in a step that leaves that record in place (a create saving a new
\* record starts a new lifetime).
CountKept(before, after, id) ==
  (/\ before # Null /\ after # Null
   /\ ~\E p \in Reqs : req[p].kind = "create" /\ req[p].id = id /\ req[p].pc = "save_new") =>
    after.view_count.v >= before.view_count.v

(***************************************************************************)
(* C30 (SpecRace): the stored view_count of a record never goes down       *)
(* while the record lives, however counted fetches overlap, and whenever   *)
(* no request is in flight it is the number of counted fetches of that     *)
(* record that answered 200.                                               *)
(***************************************************************************)
C30_ViewCount ==
  /\ [][\A id \in AllIds :
          /\ CountKept(RedisRecord(redisStore, id), RedisRecord(redisStore', id), id)
          /\ CountKept(MemoryRecord(memoryStore, id), MemoryRecord(memoryStore', id), id)]_vars
  /\ [](InFlight = {} =>
          \A c \in Reqs :
            (/\ Created(c) /\ Stored(req[c].id)
             /\ \A d \in (c + 1)..MaxReqs : ~Created(d)) =>
              StoredPaste(req[c].id).view_count.v = Cardinality(Served(c)))

(***************************************************************************)
(* SpecSwitch: a paste without TTL is created and read on one identifier,  *)
(* one request after the other, no command fails, and the Redis connection *)
(* drops and comes back between the calls.                                 *)
(***************************************************************************)
SwitchBodies ==
  {[content |-> Plain, ttl_seconds |-> Undef, max_views |-> mv] : mv \in {Undef, Num(1)}}

InitSwitch == InitWith(BOOLEAN, {FALSE})

NextSwitch ==
  \/ \E p \in 1..MaxSeq :
       \/ InFlight = {} /\ \E body \in SwitchBodies, nid \in OneId : StartCreate(p, body, nid)
       \/ InFlight = {} /\ \E kind \in {"fetch", "meta", "html"}, id \in OneId :
            StartRead(p, kind, id, Undef)
       \/ \E nid \in Draws(p, OneId) : GetStep(p, nid)
       \/ SaveStep(p)
       \/ \E nid \in Draws(p, OneId) : DeleteStep(p, nid)
  \/ RedisDisconnects
  \/ RedisReady

SpecSwitch == InitSwitch /\ [][NextSwitch]_vars

\* Between requests c and q no request saved or deleted q's identifier.
Untouched(c, q) ==
  \A m \in (c + 1)..(q - 1) :
    req[m].id = req[q].id => \A k \in DOMAIN req[m].io : req[m].io[k].op = "get"

(***************************************************************************)
(* C31: the two stores give one read/write contract whatever the           *)
(* connection does between the calls.  A read that follows a create of its *)
(* identifier, with no save or delete of it in between, finds the record;  *)
(* a read that follows a fetch that deleted the record, with no save in    *)
(* between, finds nothing.                                                 *)
(***************************************************************************)
C31_OneContract ==
  \A q \in Reqs :
    (Done(q) /\ req[q].kind \in {"fetch", "meta", "html"}) =>
      \A c \in 1..(q - 1) :
        (req[c].id = req[q].id /\ Untouched(c, q)) =>
          /\ Created(c) => req[q].loaded = req[c].paste
          /\ (req[c].kind = "fetch" /\ Done(c) /\ req[c].deleted) => req[q].loaded = Null

\* The storage calls request q has issued, in order.
Ops(q) == [k \in DOMAIN req[q].io |-> req[q].io[k].op]

\* No request has arrived after q.
Latest(q) == \A m \in (q + 1)..MaxReqs : req[m].pc = "idle"

(***************************************************************************)
(* C32 (SpecViews): a counted fetch that takes the last view (it loaded    *)
(* remaining_views = 1) deletes the record and issues no save after the    *)
(* delete: neither the decremented copy nor the view_count bump is stored. *)
(* A counted fetch whose decrement leaves views (it loaded more than 1)    *)
(* saves the decremented copy, then the copy with view_count bumped.       *)
(***************************************************************************)
C32_LastViewDeletes ==
  \A q \in Reqs :
    (Done(q) /\ req[q].kind = "fetch" /\ req[q].loaded # Null
       /\ req[q].loaded.remaining_views # Null) =>
      IF req[q].loaded.remaining_views.v = 1
      THEN /\ Ops(q) = <<"get", "del">>
           /\ req[q].deleted /\ resp[q].status = 200
           /\ Latest(q) => ~Stored(req[q].id)
      ELSE /\ Ops(q) = <<"get", "save", "save">>
           /\ ~req[q].deleted
           /\ req[q].paste.remaining_views = Num(req[q].loaded.remaining_views.v - 1)
           /\ Latest(q) => Stored(req[q].id) /\ StoredPaste(req[q].id) = req[q].paste

\* Reached: one fetch left a view and was saved, the next took the last one
\* and the record is gone.
C32_Witness ==
  \E q \in Reqs :
    /\ q + 1 <= MaxReqs /\ Latest(q + 1)
    /\ Done(q) /\ req[q].kind = "fetch" /\ Ops(q) = <<"get", "save", "save">>
    /\ Done(q + 1) /\ req[q + 1].kind = "fetch" /\ req[q + 1].deleted
    /\ req[q + 1].loaded.remaining_views = Num(1)
    /\ ~Stored(req[q].id)

(***************************************************************************)
(* C33 (SpecViews, pastes without TTL): a counted fetch of a record with   *)
(* remaining_views = null answers 200 with remaining_views = null, issues  *)
(* no delete, and stores the record it loaded with view_count one higher   *)
(* and nothing else changed; any number of such fetches succeed.           *)
(***************************************************************************)
C33_UnlimitedViews ==
  \A q \in Reqs :
    (req[q].kind = "fetch" /\ req[q].loaded # Null /\ req[q].loaded.remaining_views = Null) =>
      /\ req[q].pc \in {"save_vc", "done"}
      /\ req[q].paste = [req[q].loaded EXCEPT !.view_count = Num(req[q].loaded.view_count.v + 1)]
      /\ Done(q) =>
           /\ resp[q].status = 200
           /\ resp[q].body.remaining_views = Null
           /\ Ops(q) = <<"get", "save">>
           /\ Latest(q) => Stored(req[q].id) /\ StoredPaste(req[q].id) = req[q].paste

\* Reached: three counted fetches of a paste created without a view limit
\* have all answered 200 and the stored view_count is 3.
C33_Witness ==
  /\ Created(1) /\ req[1].body.max_views = Undef
  /\ \A q \in 2..MaxReqs : Done(q) /\ req[q].kind = "fetch" /\ resp[q].status = 200
  /\ StoredPaste(req[1].id).remaining_views = Null
  /\ StoredPaste(req[1].id).view_count = Num(MaxReqs - 1)

\* The record the store a save went to holds under an identifier.
Saved(up, rstore, mstore, id) ==
  IF up THEN RedisRecord(rstore, id) ELSE MemoryRecord(mstore, id)

(***************************************************************************)
(* C34 (SpecCreate): a creation that answers 201 has stored, under the     *)
(* identifier it returns, a record with the content of the request,        *)
(* created_at = the time read when the record was built, expires_at =      *)
(* created_at + ttl_seconds * 1000 if ttl_seconds was given and null       *)
(* otherwise, max_views and remaining_views both the max_views of the      *)
(* request if given and both null otherwise, and view_count = 0.           *)
(***************************************************************************)
C34_CreatedRecord ==
  [][\A p \in Reqs :
       /\ (req[p].kind = "create" /\ req[p].pc = "get" /\ req'[p].pc = "save_new") =>
            req'[p].paste.created_at = Date(clock)
       /\ (req[p].kind = "create" /\ req[p].pc = "save_new" /\ resp'[p].status = 201) =>
            LET body == req[p].body
                rec == Saved(redisUp, redisStore', memoryStore', resp'[p].body.id)
            IN /\ rec # Null
               /\ rec.content = body.content
               /\ rec.created_at = req[p].paste.created_at
               /\ rec.expires_at =
                    (IF IsNullish(body.ttl_seconds) THEN Null
                     ELSE PlusSeconds(rec.created_at, body.ttl_seconds.v))
               /\ rec.max_views = (IF IsNullish(body.max_views) THEN Null ELSE body.max_views)
               /\ rec.remaining_views = rec.max_views
               /\ rec.view_count = Num(0)]_vars

\* Reached: a creation with ttl_seconds = MaxTtl has answered 201 and its
\* record is stored with an expiry a year after its creation.
C34_Witness ==
  \E c \in Reqs :
    /\ Created(c) /\ req[c].body.ttl_seconds = Num(MaxTtl)
    /\ Stored(req[c].id)
    /\ StoredPaste(req[c].id).expires_at = PlusSeconds(Date(clock), MaxTtl)

\* An identifier that held no record holds one after the step only if a
\* creation is saving under it.
AppearsByCreate(before, after, id) ==
  (before = Null /\ after # Null) =>
    \E p \in Reqs : req[p].kind = "create" /\ req[p].id = id /\ req[p].pc = "save_new"

(***************************************************************************)
(* C35 (SpecRace): a record that was deleted because its views ran out     *)
(* does not come back: no save of a counted fetch that loaded the record   *)
(* before the delete, neither the save of the decrement nor the save of    *)
(* the view_count bump, puts a record under an identifier that holds       *)
(* none.  Only a creation does.                                            *)
(***************************************************************************)
C35_NoResurrection ==
  [][\A id \in AllIds :
       /\ AppearsByCreate(RedisRecord(redisStore, id), RedisRecord(redisStore', id), id)
       /\ AppearsByCreate(MemoryRecord(memoryStore, id), MemoryRecord(memoryStore', id), id)]_vars

(***************************************************************************)
(* SpecFail: a paste with a view limit is created and fetched on one       *)
(* identifier, one request after the other, against a Redis that stays     *)
(* connected while up to MaxFaults of its commands throw.                  *)
(***************************************************************************)
FailBodies ==
  {[content |-> Plain, ttl_seconds |-> Undef, max_views |-> Num(n)] : n \in 1..MaxViewsIn}

InitFail == InitWith({TRUE}, {FALSE})

NextFail ==
  \E p \in 1..MaxSeq :
    \/ p = 1 /\ \E body \in FailBodies, nid \in OneId : StartCreate(p, body, nid)
    \/ InFlight = {} /\ \E kind \in {"fetch", "meta"}, id \in OneId : StartRead(p, kind, id, Undef)
    \/ \E nid \in Draws(p, OneId) : GetStep(p, nid)
    \/ SaveStep(p)
    \/ \E nid \in Draws(p, OneId) : DeleteStep(p, nid)
    \/ Faults < MaxFaults /\ \E nid \in Draws(p, OneId) : GetThrows(p, nid)
    \/ Faults < MaxFaults /\ SaveThrows(p)
    \/ Faults < MaxFaults /\ \E nid \in Draws(p, OneId) : DeleteThrows(p, nid)

SpecFail == InitFail /\ [][NextFail]_vars

(***************************************************************************)
(* C36 (SpecFail): a counted fetch that answers 500, because a save threw  *)
(* on its last attempt, leaves the stored record as the request loaded it: *)
(* no view is taken by a request that did not deliver the content.         *)
(***************************************************************************)
C36_FailedFetchTakesNoView ==
  \A q \in Reqs :
    (Done(q) /\ req[q].kind = "fetch" /\ resp[q].status = 500 /\ Latest(q)) =>
      /\ req[q].loaded # Null
      /\ Stored(req[q].id)
      /\ StoredPaste(req[q].id) = req[q].loaded

(***************************************************************************)
(* C37 (SpecFail): when a counted fetch answers 200 with remaining_views = *)
(* 0, the terminal view, the store holds no record under the identifier,   *)
(* also when delete attempts threw.                                        *)
(***************************************************************************)
C37_TerminalViewRemoves ==
  \A q \in Reqs :
    (/\ Done(q) /\ req[q].kind = "fetch" /\ resp[q].status = 200
     /\ resp[q].body.remaining_views = Num(0) /\ Latest(q)) =>
      ~Stored(req[q].id)

(***************************************************************************)
(* C38 (SpecReplace): a creation that answers 201 does not overwrite a     *)
(* record: in the step in which its save completes, the store it saves to  *)
(* holds nothing under the identifier it returns, also when the load of    *)
(* the collision check threw on every attempt and when another creation    *)
(* drew the same identifier.                                               *)
(***************************************************************************)
C38_CreateNeverOverwrites ==
  [][\A p \in Reqs :
       (req[p].kind = "create" /\ req[p].pc = "save_new" /\ resp'[p].status = 201) =>
         Saved(redisUp, redisStore, memoryStore, resp'[p].body.id) = Null]_vars

(***************************************************************************)
(* C39 (SpecFail): every stored record with a view limit has               *)
(* remaining_views + view_count = max_views, in every state of the store:  *)
(* between the two saves of a counted fetch and after the second save has  *)
(* failed as well.                                                         *)
(***************************************************************************)
C39_ViewsAddUp ==
  \A rec \in StoredRecords :
    rec.max_views # Null =>
      rec.remaining_views.v + rec.view_count.v = rec.max_views.v

(***************************************************************************)
(* SpecLive: a paste is created and then read or created again, one        *)
(* request after the other, and any Redis command may throw, every one of  *)
(* them if it so happens (a paste is created again only while the Map is   *)
(* the store, where no command throws).  A handler that waits for a        *)
(* storage call or a backoff timer is resumed when it settles.             *)
(***************************************************************************)
InitLive == InitWith(BOOLEAN, {FALSE})

\* Request p's pending storage call settles, one way or the other.
Settles(p) ==
  \/ \E nid \in Draws(p, OneId) : GetStep(p, nid)
  \/ SaveStep(p)
  \/ \E nid \in Draws(p, OneId) : DeleteStep(p, nid)
  \/ \E nid \in Draws(p, OneId) : GetThrows(p, nid)
  \/ SaveThrows(p)
  \/ \E nid \in Draws(p, OneId) : DeleteThrows(p, nid)

NextLive ==
  \E p \in 1..MaxRace :
    \/ /\ InFlight = {} /\ (p = 1 \/ ~redisUp)
       /\ \E body \in FailBodies, nid \in OneId : StartCreate(p, body, nid)
    \/ InFlight = {} /\ \E kind \in {"fetch", "meta"}, id \in OneId :
         StartRead(p, kind, id, Undef)
    \/ Settles(p)

SpecLive == InitLive /\ [][NextLive]_vars /\ \A p \in 1..MaxRace : WF_vars(Settles(p))

Answers == {200, 201, 400, 404, 500}

(***************************************************************************)
(* C40 (SpecLive): every request ends with a response, also when every     *)
(* Redis command throws.  A storage call is on its first, second or third  *)
(* attempt, a creation has tried at most maxAttempts identifiers, and a    *)
(* request that has arrived leads to a response with status 200, 201,      *)
(* 400, 404 or 500.                                                        *)
(***************************************************************************)
C40_Terminates ==
  /\ [](\A q \in Reqs : req[q].i < Retries /\ req[q].attempts <= maxAttempts)
  /\ \A q \in 1..MaxRace :
       (req[q].pc # "idle") ~> (Done(q) /\ resp[q].status \in Answers)

\* Reached: a fetch whose every Redis command threw has answered 404 after
\* three attempts, and the creation before it has answered 500 after three
\* failed saves.
C40_Witness ==
  \E q, c \in Reqs :
    /\ Done(q) /\ req[q].kind = "fetch" /\ Len(req[q].io) = Retries
    /\ \A k \in DOMAIN req[q].io : ~req[q].io[k].ok
    /\ resp[q].status = 404
    /\ Done(c) /\ req[c].kind = "create" /\ resp[c].status = 500
    /\ Failed(req[c].io) = Retries
====
